---- MODULE Spec2Model ----
(***************************************************************************)
(* State-machine model of the client orchestration layer of the Frontend   *)
(* repository: src/app/app/page.tsx (AppPage), its callers in              *)
(* src/components/*.tsx and the remote calls of src/lib/api-client.ts.     *)
(*                                                                         *)
(* React semantics kept by the model:                                      *)
(*  - a handler reads the state captured by the render that created it     *)
(*    (`rendered`), not the latest state;                                  *)
(*  - state written by a promise continuation or a timer is committed by   *)
(*    a later render (action Render); state written synchronously by a     *)
(*    user event is committed at the end of that event;                    *)
(*  - effects run with the commit (line 216, 249, 256 of page.tsx);        *)
(*  - promise reactions run to completion before the next task, so a       *)
(*    settled promise and the continuations awaiting it are one step.      *)
(***************************************************************************)
EXTENDS Naturals, Integers, Sequences, FiniteSets, Bags, TLC

VARIABLES
  isMounted,               \* isMountedRef.current
  backendReady,            \* useState backendReady
  backendChecking,         \* useState backendChecking
  backendRetryCount,       \* useState backendRetryCount
  backendLastError,        \* useState backendLastError
  healthCheckInFlight,     \* healthCheckInFlightRef.current
  healthChecks,            \* running runHealthCheck invocations (awaiting a fetch)
  intervalOn,              \* the setInterval of the health effect exists
  probedWhileReady,        \* history: a health fetch was issued while backendReady
  conversations,           \* useState conversations (sequence of records)
  selectedConversationId,  \* useState selectedConversationId (Null or an id)
  messages,                \* useState messages
  documents,               \* useState documents
  previewDoc,              \* useState previewDoc (Null or a document id)
  previewingDocId,         \* useState previewingDocId
  loading,                 \* useState loading
  sendingMessage,          \* useState sendingMessage
  conversationCreationRef, \* conversationCreationRef.current (Null or a promise id)
  hasLoadedConversations,  \* hasLoadedConversationsRef.current
  rendered,                \* the state captured by the last committed render
  tasks,                   \* bag of asynchronous operations in flight
  srvConvs,                \* remote service: conversation ids, newest first
  srvMsgs,                 \* remote service: messages per conversation
  srvDocs,                 \* remote service: documents per conversation
  nextConvId,              \* remote service: next conversation id to assign
  nextDocId,               \* remote service: next document id to assign
  lastTs,                  \* last value returned by Date.now()
  nextCall,                \* next identity for a handler invocation / promise
  ops,                     \* number of user gestures and session changes so far
  localUploads,            \* history: the uploads that failed after ensure succeeded
  titleCall,               \* the last call of deriveConversationTitle: seed, index, result
  renameDialog,            \* ConversationsSidebar: renameDialogOpen, conversationToRename, renaming
  mapCall,                 \* the last call of mapDocument: the row's include, the result
  backendUp,               \* remote service: the health paths that answer below 500 from now on
  ev                       \* history: the last step taken

hvars == <<backendReady, backendChecking, backendRetryCount, backendLastError,
           healthCheckInFlight, healthChecks, probedWhileReady>>
cvars == <<conversations, selectedConversationId, messages, documents, previewDoc,
           previewingDocId, loading, sendingMessage, conversationCreationRef,
           hasLoadedConversations>>
svars == <<srvConvs, srvMsgs, srvDocs, nextConvId, nextDocId>>
vars  == <<mapCall, backendUp, isMounted, hvars, intervalOn, cvars, rendered, tasks, svars, lastTs,
           nextCall, ops, localUploads, titleCall, renameDialog, ev>>

(***************************************************************************)
(* Bounds of the model.                                                    *)
(***************************************************************************)
MaxRetries == 2      \* health checks that may fail before the model stops retrying
MaxOps == 2          \* user gestures in one run
MaxServerConvs == 3  \* conversation ids the remote service may assign
MaxServerDocs == 3   \* document ids the remote service may assign
MaxTs == 2           \* distinct Date.now() values
InitialConvs == 2    \* conversations the remote service may hold at the start
MaxSeedWord == 58    \* length of the first word of a title seed
MaxSeedTail == 5     \* length of the second word of a title seed

(***************************************************************************)
(* Values.                                                                 *)
(***************************************************************************)
Null == 0                 \* null / undefined
MockConversationId == 50  \* the literal id "1" of the offline conversation
LocalIdBase == 100        \* ids made from Date.now() are LocalIdBase + ts
NoError == "null"
NoRenameDialog == [open |-> FALSE, conv |-> Null, renaming |-> FALSE]
\* JavaScript values a field of a JSON row can hold
JsBoolean(b) == [type |-> "boolean", b |-> b, s |-> <<>>, n |-> 0]
JsString(s) == [type |-> "string", b |-> FALSE, s |-> s, n |-> 0]
JsNumber(n) == [type |-> "number", b |-> FALSE, s |-> <<>>, n |-> n]
JsNull == [type |-> "null", b |-> FALSE, s |-> <<>>, n |-> 0]
JsUndefined == [type |-> "undefined", b |-> FALSE, s |-> <<>>, n |-> 0]

NoMapCall == [include |-> JsUndefined, result |-> FALSE, done |-> FALSE]
NoTitleCall == [seed |-> <<>>, fallbackIndex |-> 0, result |-> <<>>, done |-> FALSE]

One(t) == SetToBag({t})
Tasks == BagToSet(tasks)
TasksOf(k) == {t \in Tasks : t.kind = k}

\* the last step: its name, its outcome, two arguments, for some steps facts
\* about the state it started from, and the notification the step raised
EventWith(op, ok, a, b, pre) ==
  [op |-> op, ok |-> ok, a |-> a, b |-> b, pre |-> pre, toast |-> "none"]
Event(op, ok, a, b) == EventWith(op, ok, a, b, <<>>)

\* a catch block that raises no notification
Destructive_Silent(e) == e

\* toast({ title: "Error", ..., variant: "destructive" }) of a catch block
Destructive(e) == [e EXCEPT !.toast = "destructive"]
\* toast({ title: "Success", ... }) after the awaited call
Success(e) == [e EXCEPT !.toast = "default"]
\* a handler modelled by one action for both outcomes: the toast of its catch
ToastOnError(e) == IF e.ok THEN e ELSE Destructive(e)

(***************************************************************************)
(* Health check: runHealthCheck, page.tsx 147-214.                         *)
(***************************************************************************)
HealthPaths == <<"/health", "/">>
DefaultError == "Unable to reach backend"

\* what one fetch of the probe loop can give: a response with a status, or an
\* exception (network failure)
Statuses == {200, 499, 500}
ProbeOutcomes ==
  {[threw |-> FALSE, status |-> s] : s \in Statuses} \cup {[threw |-> TRUE, status |-> 0]}

ServerErrorStatus == 500

\* the answers the service can give to a fetch of health path idx
Answers(idx) ==
  IF idx \in backendUp
  THEN {o \in ProbeOutcomes : ~o.threw /\ o.status < ServerErrorStatus}
  ELSE ProbeOutcomes

\* a probe that counts every response as reachable
Reachable_AnyResponse(outcome) == ~outcome.threw

\* line 173: response.status < 500
Reachable(outcome) == ~outcome.threw /\ outcome.status < ServerErrorStatus

\* line 178 / 180-181: the message recorded for a probe that did not succeed
ProbeError(outcome, idx) ==
  IF outcome.threw THEN "Network Error"
  ELSE "Backend responded with status " \o ToString(outcome.status) \o " at "
         \o HealthPaths[idx]

\* line 148-154: the entry guard, on the closure's backendReady and the two refs
HealthGuardPasses(closureReady) ==
  ~(closureReady \/ healthCheckInFlight \/ ~isMounted)

\* a finished check that writes its outcome to backendReady, whatever it is
ReadyAfterCheck_Overwrites(reachable) ==
  IF isMounted THEN reachable ELSE backendReady

\* lines 185-190 and 209-213: backendReady after a finished check
ReadyAfterCheck(reachable) ==
  IF reachable /\ isMounted THEN TRUE ELSE backendReady

\* a finished check that stores its error without looking at isMountedRef
LastErrorAfterCheck_NoMountCheck(reachable, err) ==
  IF reachable THEN NoError ELSE err

\* lines 187, 194-198, 211
LastErrorAfterCheck(reachable, err) ==
  IF ~isMounted THEN backendLastError
  ELSE IF reachable THEN NoError ELSE err

\* a finished check that never touches the retry counter
RetryCountAfterCheck_Keeps(reachable) == backendRetryCount

\* lines 188, 199, 212
RetryCountAfterCheck(reachable) ==
  IF ~isMounted THEN backendRetryCount
  ELSE IF reachable THEN 0 ELSE backendRetryCount + 1

\* a finally that releases the busy flag only while the page is mounted
InFlightAfterCheck_OnlyMounted(reachable) ==
  IF isMounted THEN FALSE ELSE healthCheckInFlight

\* line 206: healthCheckInFlightRef.current = false in the finally, outside the
\* test of isMountedRef
InFlightAfterCheck(reachable) == FALSE

\* lines 147-171: the synchronous part of runHealthCheck up to the first fetch
RunHealthCheck(closureReady, who) ==
  IF HealthGuardPasses(closureReady)
  THEN /\ healthCheckInFlight' = TRUE
       /\ backendChecking' = TRUE
       /\ healthChecks' = healthChecks \cup {[idx |-> 1, lastErr |-> DefaultError]}
       /\ probedWhileReady' = (probedWhileReady \/ backendReady)
       /\ ev' = Event("healthStart", TRUE, 1, who)
       /\ UNCHANGED <<backendReady, backendRetryCount, backendLastError>>
  ELSE /\ ev' = Event("healthNoop", FALSE, 0, who)
       /\ UNCHANGED hvars

(***************************************************************************)
(* Commit of a render and its effects.                                     *)
(***************************************************************************)
Snapshot(ready, sel, convs, sending, ld) ==
  [ready |-> ready, sel |-> sel, convs |-> convs, sending |-> sending, loading |-> ld]

\* an effect that starts loadConversations at every commit until one has loaded
ReadyEffect_IgnoresReady(ready, sel, convs) ==
  IF ~hasLoadedConversations /\ TasksOf("loadConversations") = {}
  THEN One([kind |-> "loadConversations", sel |-> sel,
            spinner |-> (Len(convs) = 0 /\ ~hasLoadedConversations)])
  ELSE EmptyBag

\* lines 249-253 with 283-288: the effect starts loadConversations when the
\* committed backendReady changed to true; the call captures this render's state
ReadyEffect(ready, sel, convs) ==
  IF ready /\ ~rendered.ready
  THEN One([kind |-> "loadConversations", sel |-> sel,
            spinner |-> (Len(convs) = 0 /\ ~hasLoadedConversations)])
  ELSE EmptyBag

\* an effect that starts the list-messages call only
SelectionEffect_OnlyMessages(sel) ==
  IF sel # rendered.sel /\ sel # Null
  THEN One([kind |-> "loadMessages", conv |-> sel])
  ELSE EmptyBag

\* lines 256-261: the effect starts both list-loads when the committed selection
\* changed to a non-null id
SelectionEffect(sel) ==
  IF sel # rendered.sel /\ sel # Null
  THEN One([kind |-> "loadMessages", conv |-> sel])
       (+) One([kind |-> "loadDocuments", conv |-> sel])
  ELSE EmptyBag

\* an effect whose interval does not outlive the first commit
IntervalAfterCommit_Cleared(ready) == FALSE

\* lines 216-229: the effect runs again only when backendReady changed; its
\* cleanup clears the interval and, backendReady being true, none is created
IntervalAfterCommit(ready) == intervalOn /\ ~ready

\* the commit: the new closure values, the effects of lines 216-229, 249-261
Commit(ready, sel, convs, sending, ld, baseTasks) ==
  /\ rendered' = Snapshot(ready, sel, convs, sending, ld)
  /\ intervalOn' = IntervalAfterCommit(ready)
  /\ tasks' = baseTasks (+) ReadyEffect(ready, sel, convs) (+) SelectionEffect(sel)

Current == Snapshot(backendReady, selectedConversationId, conversations,
                    sendingMessage, loading)

\* a render scheduled by state written outside a user event
Render ==
  /\ isMounted
  /\ rendered # Current
  /\ Commit(backendReady, selectedConversationId, conversations, sendingMessage,
            loading, tasks)
  /\ ev' = Event("render", TRUE, 0, 0)
  /\ UNCHANGED <<mapCall, backendUp, isMounted, hvars, cvars, svars, lastTs, nextCall, ops, localUploads,
                 titleCall, renameDialog>>

\* lines 89-93 and 226-228: teardown
Unmount ==
  /\ isMounted
  /\ isMounted' = FALSE
  /\ intervalOn' = FALSE
  /\ ev' = Event("unmount", TRUE, 0, 0)
  /\ UNCHANGED <<mapCall, backendUp, hvars, cvars, rendered, tasks, svars, lastTs, nextCall, ops,
                 localUploads,
                 titleCall, renameDialog>>

\* lines 222-224: a tick of the interval; the interval was created by an effect
\* whose render had backendReady false (line 217), so its runHealthCheck closure
\* holds backendReady = false until the effect's cleanup removes the interval
IntervalTick ==
  /\ intervalOn
  /\ backendRetryCount < MaxRetries
  /\ RunHealthCheck(FALSE, 1)
  /\ UNCHANGED <<mapCall, backendUp, isMounted, intervalOn, cvars, rendered, tasks, svars, lastTs,
                 nextCall, ops, localUploads,
                 titleCall, renameDialog>>

\* lines 669-673: the "Check again now" button of the not-ready screen; it exists
\* while the last render had backendReady false. setBackendChecking(true) is
\* written inside the click, so the event ends with a commit.
ManualRetry ==
  /\ isMounted
  /\ ~rendered.ready
  /\ backendRetryCount < MaxRetries
  /\ RunHealthCheck(rendered.ready, 2)
  /\ IF HealthGuardPasses(rendered.ready)
     THEN Commit(backendReady, selectedConversationId, conversations,
                 sendingMessage, loading, tasks)
     ELSE UNCHANGED <<rendered, intervalOn, tasks>>
  /\ UNCHANGED <<mapCall, backendUp, isMounted, cvars, svars, lastTs, nextCall, ops, localUploads,
                 titleCall, renameDialog>>

\* lines 166-207: the continuation after one fetch of the probe loop
HealthProbeDone(h, outcome) ==
  /\ h \in healthChecks
  /\ outcome \in Answers(h.idx)
  /\ LET reachable == Reachable(outcome)
         err == IF reachable THEN h.lastErr ELSE ProbeError(outcome, h.idx)
     IN IF ~reachable /\ h.idx < Len(HealthPaths)
        THEN \* next iteration of the for loop: the next fetch is issued
             /\ healthChecks' = (healthChecks \ {h})
                                  \cup {[idx |-> h.idx + 1, lastErr |-> err]}
             /\ probedWhileReady' = (probedWhileReady \/ backendReady)
             /\ ev' = EventWith("probeNext", FALSE, h.idx + 1, 0, outcome)
             /\ UNCHANGED <<backendReady, backendChecking, backendRetryCount,
                            backendLastError, healthCheckInFlight>>
        ELSE \* the loop ended: lines 185-213
             /\ backendReady' = ReadyAfterCheck(reachable)
             /\ backendLastError' = LastErrorAfterCheck(reachable, err)
             /\ backendRetryCount' = RetryCountAfterCheck(reachable)
             /\ backendChecking' = (IF isMounted THEN FALSE ELSE backendChecking)
             /\ healthCheckInFlight' = InFlightAfterCheck(reachable)
             /\ healthChecks' = healthChecks \ {h}
             /\ ev' = EventWith("healthDone", reachable, h.idx, 0, outcome)
             /\ UNCHANGED probedWhileReady
  /\ UNCHANGED <<mapCall, backendUp, isMounted, intervalOn, cvars, rendered, tasks, svars, lastTs,
                 nextCall, ops, localUploads,
                 titleCall, renameDialog>>

(***************************************************************************)
(* Pure helpers.                                                           *)
(***************************************************************************)
Ids(convs) == {convs[i].id : i \in 1..Len(convs)}

\* Date.now(): a clock that never goes back; two reads may return the same value
TsReads == {ts \in {lastTs, lastTs + 1} : ts <= MaxTs}

\* new Date(), whose value only fills created_at / updated_at (lines 110, 306,
\* 366, 445): the time of the clock as last read
Now == lastTs

Whitespace == {" ", "\t"}
MAX_AUTO_TITLE_LENGTH == 60

RECURSIVE TrimStart(_)
TrimStart(s) ==
  IF s # <<>> /\ Head(s) \in Whitespace THEN TrimStart(Tail(s)) ELSE s

RECURSIVE TrimEnd(_)
TrimEnd(s) ==
  IF s # <<>> /\ s[Len(s)] \in Whitespace THEN TrimEnd(SubSeq(s, 1, Len(s) - 1)) ELSE s

\* String.prototype.trim
Trim(s) == TrimEnd(TrimStart(s))

\* replace(/\s+/g, " "), line 49
RECURSIVE CollapseWhitespace(_)
CollapseWhitespace(s) ==
  IF s = <<>> THEN <<>>
  ELSE IF Head(s) \in Whitespace
       THEN <<" ">> \o CollapseWhitespace(TrimStart(s))
       ELSE <<Head(s)>> \o CollapseWhitespace(Tail(s))

\* "New Conversation ${fallbackIndex}", lines 55, 364, 391
FallbackTitle(fallbackIndex) == <<"New Conversation ", ToString(fallbackIndex)>>

\* a title cut at 57 characters that keeps a trailing space before the dots
deriveConversationTitle_KeepsSpace(seed, fallbackIndex) ==
  LET trimmedSeed == Trim(seed) IN
  IF trimmedSeed # <<>>
  THEN LET normalized == CollapseWhitespace(trimmedSeed) IN
       IF Len(normalized) <= MAX_AUTO_TITLE_LENGTH
       THEN normalized
       ELSE SubSeq(normalized, 1, MAX_AUTO_TITLE_LENGTH - 3) \o <<".", ".", ".">>
  ELSE FallbackTitle(fallbackIndex)

\* lines 43-56; a string is a sequence of characters, undefined is <<>>
deriveConversationTitle(seed, fallbackIndex) ==
  LET trimmedSeed == Trim(seed) IN
  IF trimmedSeed # <<>>
  THEN LET normalized == CollapseWhitespace(trimmedSeed) IN
       IF Len(normalized) <= MAX_AUTO_TITLE_LENGTH
       THEN normalized
       ELSE TrimEnd(SubSeq(normalized, 1, MAX_AUTO_TITLE_LENGTH - 3)) \o <<".", ".", ".">>
  ELSE FallbackTitle(fallbackIndex)

(***************************************************************************)
(* Remote service (src/lib/api-client.ts): what each call returns.         *)
(***************************************************************************)
ServerConvIds == 1..MaxServerConvs
ServerHas(c) == c \in Ids(srvConvs)

\* mapConversation, lines 84-89: the times of a listed conversation are the
\* row's, set by the service before the page asked for them
ServerTime == -1
mapConversation(r) == [id |-> r.id, title |-> r.title, updated_at |-> ServerTime]

\* conversationsApi.list, lines 118-121
ListConversations == [i \in 1..Len(srvConvs) |-> mapConversation(srvConvs[i])]

\* mapMessage, lines 92-98: sender "ai" becomes role "assistant"
mapMessage(r) ==
  [conv |-> r.conversation_id,
   role |-> IF r.sender = "ai" THEN "assistant" ELSE "user",
   call |-> r.call, src |-> "row"]

\* String.prototype.toLowerCase on the letters used here
ToLowerCase(s) ==
  [i \in 1..Len(s) |->
     CASE s[i] = "T" -> "t" [] s[i] = "R" -> "r" [] s[i] = "U" -> "u"
       [] s[i] = "E" -> "e" [] s[i] = "Y" -> "y" [] s[i] = "S" -> "s"
       [] OTHER -> s[i]]

\* Boolean(v): false for undefined, null, 0 and the empty string
Boolean(v) ==
  CASE v.type = "boolean" -> v.b
    [] v.type = "string" -> v.s # <<>>
    [] v.type = "number" -> v.n # 0
    [] OTHER -> FALSE

\* toBoolean, lines 100-104
toBoolean(v, fallback) ==
  IF v.type = "boolean" THEN v.b
  ELSE IF v.type = "string" THEN ToLowerCase(Trim(v.s)) = <<"t", "r", "u", "e">>
  ELSE IF fallback THEN Boolean(v) ELSE FALSE

\* mapDocument, lines 106-113: the row carries no file size
mapDocument(r) ==
  [id |-> r.id, conv |-> r.conversation_id, included |-> toBoolean(r.include, TRUE),
   size |-> Null]

\* a row of the service as the JSON response carries it: include is a boolean
DocumentRow(r) == [r EXCEPT !.include = JsBoolean(@)]

\* messagesApi.list, lines 148-153
ListMessages(c) == [i \in 1..Len(srvMsgs[c]) |-> mapMessage(srvMsgs[c][i])]

\* documentsApi.list, lines 180-185
ListDocuments(c) ==
  [i \in 1..Len(srvDocs[c]) |-> mapDocument(DocumentRow(srvDocs[c][i]))]

\* the rows the service stores for one answered message
StoredExchange(c, k) ==
  <<[conversation_id |-> c, sender |-> "user", call |-> k],
    [conversation_id |-> c, sender |-> "ai", call |-> k]>>

(***************************************************************************)
(* The user interface is shown once the last render had backendReady and   *)
(* not loading (page.tsx 644-697).                                         *)
(***************************************************************************)
UIShown == isMounted /\ rendered.ready /\ ~rendered.loading
Gesture == UIShown /\ ops < MaxOps

\* a commit of the current state, for events that write no page state themselves
CommitCurrent(baseTasks) ==
  Commit(backendReady, selectedConversationId, conversations, sendingMessage,
         loading, baseTasks)

\* the commit that ends a send gesture: sendingMessage was set inside the event
CommitCurrentSending(baseTasks) ==
  Commit(backendReady, selectedConversationId, conversations, TRUE, loading, baseTasks)

(***************************************************************************)
(* List loads, page.tsx 283-360.                                           *)
(***************************************************************************)
MockConversations(ts) ==
  <<[id |-> MockConversationId, title |-> <<"Getting Started">>, updated_at |-> ts]>>

\* an auto-select that takes the id of the offline conversation
AutoSelect_Mock(loaded, closureSel) ==
  IF closureSel = Null THEN MockConversationId ELSE selectedConversationId

\* lines 292-294 and 311-313: auto-select on the closure's selectedConversationId
AutoSelect(loaded, closureSel) ==
  IF Len(loaded) > 0 /\ closureSel = Null THEN loaded[1].id ELSE selectedConversationId

\* lines 289-319
LoadConversationsDone(t, ok) ==
  /\ t \in TasksOf("loadConversations")
  /\ LET loaded == IF ok THEN ListConversations ELSE MockConversations(Now) IN
     /\ conversations' = loaded
     /\ selectedConversationId' = AutoSelect(loaded, t.sel)
  /\ hasLoadedConversations' = TRUE
  /\ loading' = (IF t.spinner THEN FALSE ELSE loading)
  /\ tasks' = tasks (-) One(t)
  /\ ev' = ToastOnError(Event("loadConversationsDone", ok, t.sel, 0))
  /\ UNCHANGED <<mapCall, backendUp, isMounted, hvars, intervalOn, messages, documents, previewDoc,
                 previewingDocId, sendingMessage, conversationCreationRef, rendered,
                 svars, lastTs, nextCall, ops, localUploads,
                 titleCall, renameDialog>>

\* useAuth() hands AppPage a new `user` object (the session provider refreshed
\* the session): the page renders again and the effect of lines 249-253, which
\* depends on [user, backendReady], calls loadConversations of that render
\* (lines 283-288)
SessionUserChanged ==
  /\ isMounted
  /\ backendReady /\ rendered.ready
  /\ ops < MaxOps
  /\ LET spinner == Len(conversations) = 0 /\ ~hasLoadedConversations IN
     /\ loading' = (IF spinner THEN TRUE ELSE loading)
     /\ Commit(backendReady, selectedConversationId, conversations, sendingMessage,
               loading',
               tasks (+) One([kind |-> "loadConversations",
                              sel |-> selectedConversationId, spinner |-> spinner]))
  /\ ops' = ops + 1
  /\ ev' = Event("userChanged", TRUE, 0, 0)
  /\ UNCHANGED <<mapCall, backendUp, isMounted, hvars, conversations, selectedConversationId, messages,
                 documents, previewDoc, previewingDocId, sendingMessage,
                 conversationCreationRef, hasLoadedConversations, svars, lastTs,
                 nextCall, localUploads, titleCall, renameDialog>>

\* lines 333-343
MockMessages(c) == <<[conv |-> c, role |-> "assistant", call |-> 0, src |-> "mock"]>>

\* lines 322-345
MessagesAfterLoad(c, ok) == IF ok THEN ListMessages(c) ELSE MockMessages(c)

LoadMessagesDone(t, ok) ==
  /\ t \in TasksOf("loadMessages")
  /\ ok => ServerHas(t.conv)
  /\ messages' = MessagesAfterLoad(t.conv, ok)
  /\ tasks' = tasks (-) One(t)
  /\ ev' = ToastOnError(Event("loadMessagesDone", ok, t.conv, 0))
  /\ UNCHANGED <<mapCall, backendUp, isMounted, hvars, intervalOn, conversations, selectedConversationId,
                 documents, previewDoc, previewingDocId, loading, sendingMessage,
                 conversationCreationRef, hasLoadedConversations, rendered, svars,
                 lastTs, nextCall, ops, localUploads,
                 titleCall, renameDialog>>

\* lines 347-360
DocumentsAfterLoad(c, ok) == IF ok THEN ListDocuments(c) ELSE <<>>

LoadDocumentsDone(t, ok) ==
  /\ t \in TasksOf("loadDocuments")
  /\ ok => ServerHas(t.conv)
  /\ documents' = DocumentsAfterLoad(t.conv, ok)
  /\ tasks' = tasks (-) One(t)
  /\ ev' = ToastOnError(Event("loadDocumentsDone", ok, t.conv, 0))
  /\ UNCHANGED <<mapCall, backendUp, isMounted, hvars, intervalOn, conversations, selectedConversationId,
                 messages, previewDoc, previewingDocId, loading, sendingMessage,
                 conversationCreationRef, hasLoadedConversations, rendered, svars,
                 lastTs, nextCall, ops, localUploads,
                 titleCall, renameDialog>>

(***************************************************************************)
(* Selection, page.tsx 400-405.                                            *)
(***************************************************************************)
handleSelectConversation(c) ==
  /\ Gesture
  /\ c \in Ids(rendered.convs)
  /\ selectedConversationId' = c
  /\ Commit(backendReady, c, conversations, sendingMessage, loading, tasks)
  /\ ops' = ops + 1
  /\ ev' = Event("select", TRUE, c, 0)
  /\ UNCHANGED <<mapCall, backendUp, isMounted, hvars, conversations, messages, documents, previewDoc,
                 previewingDocId, loading, sendingMessage, conversationCreationRef,
                 hasLoadedConversations, svars, lastTs, nextCall, localUploads,
                 titleCall, renameDialog>>

(***************************************************************************)
(* Conversation creation.                                                  *)
(***************************************************************************)
\* conversationsApi.create, api-client.ts 125-131: the service stores the
\* conversation and assigns its id; the response is still to be delivered
ServerCreate(t) ==
  /\ t \in TasksOf("createConversation") \cup TasksOf("ensureCreate")
  /\ t.pc = "req"
  /\ nextConvId <= MaxServerConvs
  /\ srvConvs' = <<[id |-> nextConvId, title |-> t.title]>> \o srvConvs
  /\ nextConvId' = nextConvId + 1
  /\ tasks' = (tasks (-) One(t)) (+) One([t EXCEPT !.pc = "resp", !.id = nextConvId])
  /\ ev' = Event("serverCreate", TRUE, nextConvId, 0)
  /\ UNCHANGED <<mapCall, backendUp, isMounted, hvars, intervalOn, cvars, rendered, srvMsgs, srvDocs,
                 nextDocId, lastTs, nextCall, ops, localUploads,
                 titleCall, renameDialog>>

\* lines 362-365: the explicit "New conversation" button; nothing is written
\* before the await, the closure's conversations are captured
handleCreateConversation ==
  /\ Gesture
  /\ tasks' = tasks (+) One([kind |-> "createConversation", pc |-> "req", id |-> Null,
                             title |-> FallbackTitle(Len(rendered.convs) + 1),
                             convs |-> rendered.convs])
  /\ ops' = ops + 1
  /\ ev' = Event("createStart", TRUE, 0, 0)
  /\ UNCHANGED <<mapCall, backendUp, isMounted, hvars, intervalOn, cvars, rendered, svars, lastTs, nextCall, localUploads,
                 titleCall, renameDialog>>

\* lines 366-381
CreateConversationDone(t) ==
  /\ t \in TasksOf("createConversation")
  /\ t.pc = "resp"
  /\ conversations' = <<[id |-> t.id, title |-> t.title, updated_at |-> Now]>>
                         \o conversations
  /\ selectedConversationId' = t.id
  /\ tasks' = tasks (-) One(t)
  /\ ev' = Success(Event("createDone", TRUE, t.id, 0))
  /\ UNCHANGED <<mapCall, backendUp, isMounted, hvars, intervalOn, messages, documents, previewDoc,
                 previewingDocId, loading, sendingMessage, conversationCreationRef,
                 hasLoadedConversations, rendered, svars, lastTs, nextCall, ops, localUploads,
                 titleCall, renameDialog>>

\* lines 382-397: the offline conversation is put in front of the conversations
\* captured when the handler was called
CreateConversationFailed(t, ts) ==
  /\ t \in TasksOf("createConversation")
  /\ t.pc = "req"
  /\ ts \in TsReads
  /\ lastTs' = ts
  /\ conversations' = <<[id |-> LocalIdBase + ts,
                         title |-> FallbackTitle(Len(t.convs) + 1),
                         updated_at |-> ts]>> \o t.convs
  /\ selectedConversationId' = LocalIdBase + ts
  /\ tasks' = tasks (-) One(t)
  /\ ev' = Destructive(Event("createDone", FALSE, LocalIdBase + ts, 0))
  /\ UNCHANGED <<mapCall, backendUp, isMounted, hvars, intervalOn, messages, documents, previewDoc,
                 previewingDocId, loading, sendingMessage, conversationCreationRef,
                 hasLoadedConversations, rendered, svars, nextCall, ops, localUploads,
                 titleCall, renameDialog>>

(***************************************************************************)
(* ensureActiveConversation, page.tsx 95-145, as called by handleSendMessage *)
(* and handleUploadDocument.                                               *)
(***************************************************************************)
\* a caller that starts a creation without looking at the ref
StartsCreation_IgnoresRef(closureSel) == closureSel = Null

\* line 101: a creation is started only when the ref holds no promise
StartsCreation(closureSel) == closureSel = Null /\ conversationCreationRef = Null

\* lines 101-128: the promise this caller awaits
AwaitedPromise(closureSel) ==
  IF StartsCreation(closureSel) THEN nextCall + 1 ELSE conversationCreationRef

\* lines 102-109, 127: the creation started by this call, if any
EnsureCreation(closureSel, seedTitle) ==
  IF StartsCreation(closureSel)
  THEN One([kind |-> "ensureCreate", pc |-> "req", id |-> Null, p |-> nextCall + 1,
            title |-> deriveConversationTitle(seedTitle, Len(rendered.convs) + 1)])
  ELSE EmptyBag

\* a call that stores a promise in the ref whatever the selection is
EnsureRef_AlwaysSets(closureSel) == nextCall + 1

\* the part of ensureActiveConversation that runs inside the calling event
EnsureRef(closureSel) ==
  IF closureSel # Null THEN conversationCreationRef ELSE AwaitedPromise(closureSel)

UserMessage(c, k) == [conv |-> c, role |-> "user", call |-> k, src |-> "temp"]

Contents == {<<"h", "i">>}

\* a handler that starts a send whatever the flag says
SendGuardPasses_Always(closureSending) == TRUE

\* line 469: if (sendingMessage) return;
SendGuardPasses(closureSending) == ~closureSending

\* lines 468-492 up to the first remote call. ChatPanel.handleSubmit
\* (conversations-sidebar.tsx 452-458) and line 469 both read the rendered
\* sendingMessage; setSendingMessage(true) is written inside the event.
handleSendMessage(content) ==
  /\ Gesture
  /\ SendGuardPasses(rendered.sending)
  /\ sendingMessage' = TRUE
  /\ LET k == nextCall
         sel == rendered.sel IN
     /\ conversationCreationRef' = EnsureRef(sel)
     /\ IF sel # Null
        THEN /\ messages' = Append(messages, UserMessage(sel, k))
             /\ CommitCurrentSending(
                  tasks (+) One([kind |-> "send", call |-> k, pc |-> "sending",
                                 conv |-> sel, cr |-> Null, created |-> FALSE]))
        ELSE /\ messages' = messages
             /\ CommitCurrentSending(
                  tasks (+) EnsureCreation(sel, content)
                        (+) One([kind |-> "send", call |-> k, pc |-> "ensure",
                                 conv |-> Null, cr |-> AwaitedPromise(sel),
                                 created |-> FALSE]))
  /\ nextCall' = nextCall + 2
  /\ ops' = ops + 1
  /\ ev' = Event("sendStart", TRUE, rendered.sel, nextCall)
  /\ UNCHANGED <<mapCall, backendUp, isMounted, hvars, conversations, selectedConversationId, documents,
                 previewDoc, previewingDocId, loading, hasLoadedConversations, svars,
                 lastTs, localUploads,
                 titleCall, renameDialog>>

FileSizes == {1, 2}

\* lines 520-530 for one file of a batch: the call of handleUploadDocument made
\* by the loop of handleFileChange, with the selection and the list length of
\* the render whose handler the loop holds, while the ref holds `ref`; k is the
\* identity of the call, rest the files still to come
UploadCall(size, rest, closureSel, closureLen, ref, k) ==
  LET w == [kind |-> "upload", call |-> k, size |-> size, rest |-> rest,
            csel |-> closureSel, clen |-> closureLen, created |-> FALSE] IN
  IF closureSel # Null
  THEN One(w @@ [pc |-> "uploading", conv |-> closureSel, cr |-> Null])
  ELSE IF ref = Null      \* line 101: this call starts the creation
  THEN One([kind |-> "ensureCreate", pc |-> "req", id |-> Null, p |-> k + 1,
            title |-> deriveConversationTitle(<<>>, closureLen + 1)])
       (+) One(w @@ [pc |-> "ensure", conv |-> Null, cr |-> k + 1])
  ELSE One(w @@ [pc |-> "ensure", conv |-> Null, cr |-> ref])

\* lines 101-128: the ref after that call
RefAfterUploadCall(closureSel, ref, k) ==
  IF closureSel = Null /\ ref = Null THEN k + 1 ELSE ref

\* DocumentsPanel.handleFileChange (documents-panel.tsx 48-73): `uploading`
\* keeps a second batch from starting; the loop calls onUploadDocument for the
\* first file, lines 520-530
handleFileChange(files) ==
  /\ Gesture
  /\ TasksOf("upload") = {}
  /\ files # <<>>
  /\ conversationCreationRef' =
       RefAfterUploadCall(rendered.sel, conversationCreationRef, nextCall)
  /\ CommitCurrent(tasks (+) UploadCall(Head(files), Tail(files), rendered.sel,
                                        Len(rendered.convs), conversationCreationRef,
                                        nextCall))
  /\ nextCall' = nextCall + 2
  /\ ops' = ops + 1
  /\ ev' = Event("uploadStart", TRUE, rendered.sel, nextCall)
  /\ UNCHANGED <<mapCall, backendUp, isMounted, hvars, conversations, selectedConversationId, messages,
                 documents, previewDoc, previewingDocId, loading, sendingMessage,
                 hasLoadedConversations, svars, lastTs, localUploads,
                 titleCall, renameDialog>>

\* one file chosen in the file dialog
handleUploadDocument(size) == handleFileChange(<<size>>)

\* documents-panel.tsx 63-66: when the call for one file has returned, the loop
\* calls the same onUploadDocument for the next file of the batch
NextUploadCall(w, ref) ==
  IF w.rest = <<>> THEN EmptyBag
  ELSE UploadCall(Head(w.rest), Tail(w.rest), w.csel, w.clen, ref, nextCall)

RefAfterNextUploadCall(w, ref) ==
  IF w.rest = <<>> THEN ref ELSE RefAfterUploadCall(w.csel, ref, nextCall)

CallsAfterNextUploadCall(w) == IF w.rest = <<>> THEN nextCall ELSE nextCall + 2

\* only the caller that made the creation is resumed
Waiters_CreatorOnly(p) ==
  {w \in TasksOf("send") \cup TasksOf("upload") :
     w.pc = "ensure" /\ w.cr = p /\ w.call = p - 1}

\* the callers awaiting promise p (line 132)
Waiters(p) == {w \in TasksOf("send") \cup TasksOf("upload") : w.pc = "ensure" /\ w.cr = p}

\* the user messages appended by the send callers that resume with conversation c
\* (lines 479-487), in the order of their calls
RECURSIVE ResumedUserMessages(_, _)
ResumedUserMessages(ws, c) ==
  IF ws = {} THEN <<>>
  ELSE LET w == CHOOSE x \in ws : \A y \in ws : x.call <= y.call IN
       (IF w.kind = "send" THEN <<UserMessage(c, w.call)>> ELSE <<>>)
         \o ResumedUserMessages(ws \ {w}, c)

\* a caller after `await ensureActiveConversation` returned c: the remote call
\* of line 489 or 527 is issued
Resumed(w, c) ==
  IF w.kind = "send" THEN [w EXCEPT !.pc = "sending", !.conv = c, !.created = TRUE]
  ELSE [w EXCEPT !.pc = "uploading", !.conv = c, !.created = TRUE]

\* a finally that leaves the settled promise in the ref
RefAfterSettle_KeepsPromise(p) == conversationCreationRef

\* lines 133-137: the finally of every awaiting caller
RefAfterSettle(p) ==
  IF conversationCreationRef = p THEN Null ELSE conversationCreationRef

\* a new conversation put behind the ones already listed
WithNewConversation_AtEnd(prev, newConversation) == Append(prev, newConversation)

\* line 117: setConversations((prev) => [newConversation, ...prev])
WithNewConversation(prev, newConversation) == <<newConversation>> \o prev

\* lines 110-124 (the creation promise resolves), then every awaiting caller
\* resumes: lines 133-137, and 477-489 or 525-527
EnsureCreateDone(t) ==
  /\ t \in TasksOf("ensureCreate")
  /\ t.pc = "resp"
  /\ conversations' = WithNewConversation(conversations,
                         [id |-> t.id, title |-> t.title, updated_at |-> Now])
  /\ selectedConversationId' = t.id
  /\ messages' = ResumedUserMessages(Waiters(t.p), t.id)
  /\ documents' = <<>>
  /\ conversationCreationRef' = RefAfterSettle(t.p)
  /\ tasks' = ((tasks (-) One(t)) (-) SetToBag(Waiters(t.p)))
                (+) SetToBag({Resumed(w, t.id) : w \in Waiters(t.p)})
  /\ ev' = EventWith("ensureDone", TRUE, t.id, t.p, <<Len(messages), Len(documents)>>)
  /\ UNCHANGED <<mapCall, backendUp, isMounted, hvars, intervalOn, previewDoc, previewingDocId, loading,
                 sendingMessage, hasLoadedConversations, rendered, svars, lastTs,
                 nextCall, ops, localUploads,
                 titleCall, renameDialog>>

\* a catch that schedules the offline reply whatever was ensured and appended
ScheduledReply_Always(ensuredConversationId, userMessageAppended, k) ==
  One([kind |-> "offlineReply", call |-> k, conv |-> ensuredConversationId])

\* lines 501-514: the catch of handleSendMessage schedules the offline reply
\* with setTimeout only when the conversation was ensured and the user message
\* appended
ScheduledReply(ensuredConversationId, userMessageAppended, k) ==
  IF ensuredConversationId # Null /\ userMessageAppended
  THEN One([kind |-> "offlineReply", call |-> k, conv |-> ensuredConversationId])
  ELSE EmptyBag

\* the catch of every send caller rejected while awaiting the creation: nothing
\* was ensured, no user message was appended (lines 472-473, 476)
RECURSIVE RepliesOfRejected(_)
RepliesOfRejected(ws) ==
  IF ws = {} THEN EmptyBag
  ELSE LET w == CHOOSE x \in ws : TRUE IN
       (IF w.kind = "send" THEN ScheduledReply(Null, FALSE, w.call) ELSE EmptyBag)
         (+) RepliesOfRejected(ws \ {w})

\* the creation promise rejects: lines 133-137, then the catch and finally of
\* the callers (494-517 with ensuredConversationId null, 536-554)
EnsureCreateFailed(t) ==
  /\ t \in TasksOf("ensureCreate")
  /\ t.pc = "req"
  /\ LET uploads == {w \in Waiters(t.p) : w.kind = "upload"}
         batch == {w \in uploads : w.rest # <<>>}
         ref == RefAfterSettle(t.p)
     IN IF batch = {}
        THEN /\ conversationCreationRef' = ref
             /\ tasks' = ((tasks (-) One(t)) (-) SetToBag(Waiters(t.p)))
                           (+) RepliesOfRejected(Waiters(t.p))
             /\ nextCall' = nextCall
        ELSE \* the upload caller has returned: the loop calls for the next file
             LET w == CHOOSE x \in batch : TRUE IN
             /\ conversationCreationRef' = RefAfterNextUploadCall(w, ref)
             /\ tasks' = ((tasks (-) One(t)) (-) SetToBag(Waiters(t.p)))
                           (+) RepliesOfRejected(Waiters(t.p))
                           (+) NextUploadCall(w, ref)
             /\ nextCall' = CallsAfterNextUploadCall(w)
  /\ sendingMessage' = (IF \E w \in Waiters(t.p) : w.kind = "send" THEN FALSE
                        ELSE sendingMessage)
  /\ ev' = Destructive(Event("ensureDone", FALSE, 0, t.p))
  /\ UNCHANGED <<mapCall, backendUp, isMounted, hvars, intervalOn, conversations, selectedConversationId,
                 messages, documents, previewDoc, previewingDocId, loading,
                 hasLoadedConversations, rendered, svars, lastTs, ops, localUploads,
                 titleCall, renameDialog>>

(***************************************************************************)
(* handleSendMessage after the remote call, page.tsx 489-517.              *)
(***************************************************************************)
AssistantMessage(c, k, src) == [conv |-> c, role |-> "assistant", call |-> k, src |-> src]

\* messagesApi.send resolved (api-client.ts 157-175), lines 493, 515-517
SendDone(t) ==
  /\ t \in TasksOf("send")
  /\ t.pc = "sending"
  /\ ServerHas(t.conv)
  /\ srvMsgs' = [srvMsgs EXCEPT ![t.conv] = @ \o StoredExchange(t.conv, t.call)]
  /\ messages' = Append(messages, AssistantMessage(t.conv, t.call, "reply"))
  /\ sendingMessage' = FALSE
  /\ tasks' = tasks (-) One(t)
  /\ ev' = Event("sendDone", TRUE, t.conv, t.call)
  /\ UNCHANGED <<mapCall, backendUp, isMounted, hvars, intervalOn, conversations, selectedConversationId,
                 documents, previewDoc, previewingDocId, loading,
                 conversationCreationRef, hasLoadedConversations, rendered, srvConvs,
                 srvDocs, nextConvId, nextDocId, lastTs, nextCall, ops, localUploads,
                 titleCall, renameDialog>>

\* messagesApi.send rejected: lines 494-517; the user message was appended
\* (userMessageAppended) so the offline reply is scheduled with setTimeout
SendFailed(t) ==
  /\ t \in TasksOf("send")
  /\ t.pc = "sending"
  /\ sendingMessage' = FALSE
  /\ tasks' = (tasks (-) One(t)) (+) ScheduledReply(t.conv, TRUE, t.call)
  /\ ev' = Destructive(Event("sendDone", FALSE, t.conv, t.call))
  /\ UNCHANGED <<mapCall, backendUp, isMounted, hvars, intervalOn, conversations, selectedConversationId,
                 messages, documents, previewDoc, previewingDocId, loading,
                 conversationCreationRef, hasLoadedConversations, rendered, svars,
                 lastTs, nextCall, ops, localUploads,
                 titleCall, renameDialog>>

\* lines 503-513: the timer callback
OfflineReply(t) ==
  /\ t \in TasksOf("offlineReply")
  /\ messages' = Append(messages, AssistantMessage(t.conv, t.call, "offline"))
  /\ tasks' = tasks (-) One(t)
  /\ ev' = Event("offlineReply", TRUE, t.conv, t.call)
  /\ UNCHANGED <<mapCall, backendUp, isMounted, hvars, intervalOn, conversations, selectedConversationId,
                 documents, previewDoc, previewingDocId, loading, sendingMessage,
                 conversationCreationRef, hasLoadedConversations, rendered, svars,
                 lastTs, nextCall, ops, localUploads,
                 titleCall, renameDialog>>

(***************************************************************************)
(* handleUploadDocument after the remote call, page.tsx 527-554.           *)
(***************************************************************************)
\* documentsApi.upload, api-client.ts 188-211
UploadedDocument(c, id) == [id |-> id, conv |-> c, included |-> TRUE, size |-> Null]

\* lines 544-551
LocalDocument(c, ts, size) ==
  [id |-> LocalIdBase + ts, conv |-> c, included |-> TRUE, size |-> size]

UploadDone(t) ==
  /\ t \in TasksOf("upload")
  /\ t.pc = "uploading"
  /\ ServerHas(t.conv)
  /\ nextDocId <= MaxServerDocs
  /\ srvDocs' = [srvDocs EXCEPT ![t.conv] =
                   Append(@, [id |-> nextDocId, conversation_id |-> t.conv,
                              include |-> TRUE])]
  /\ nextDocId' = nextDocId + 1
  /\ documents' = Append(documents, UploadedDocument(t.conv, nextDocId))
  /\ tasks' = (tasks (-) One(t)) (+) NextUploadCall(t, conversationCreationRef)
  /\ conversationCreationRef' = RefAfterNextUploadCall(t, conversationCreationRef)
  /\ nextCall' = CallsAfterNextUploadCall(t)
  /\ ev' = Success(EventWith("uploadDone", TRUE, t.conv, t.call, t))
  /\ UNCHANGED <<mapCall, backendUp, isMounted, hvars, intervalOn, conversations, selectedConversationId,
                 messages, previewDoc, previewingDocId, loading, sendingMessage,
                 hasLoadedConversations, rendered, srvConvs,
                 srvMsgs, nextConvId, lastTs, ops, localUploads,
                 titleCall, renameDialog>>

UploadFailed(t, ts) ==
  /\ t \in TasksOf("upload")
  /\ t.pc = "uploading"
  /\ ts \in TsReads
  /\ lastTs' = ts
  /\ documents' = Append(documents, LocalDocument(t.conv, ts, t.size))
  /\ localUploads' = localUploads \cup {[call |-> t.call, conv |-> t.conv, size |-> t.size,
                                        id |-> LocalIdBase + ts]}
  /\ tasks' = (tasks (-) One(t)) (+) NextUploadCall(t, conversationCreationRef)
  /\ conversationCreationRef' = RefAfterNextUploadCall(t, conversationCreationRef)
  /\ nextCall' = CallsAfterNextUploadCall(t)
  /\ ev' = Destructive(EventWith("uploadDone", FALSE, t.conv, t.call, t))
  /\ UNCHANGED <<mapCall, backendUp, isMounted, hvars, intervalOn, conversations, selectedConversationId,
                 messages, previewDoc, previewingDocId, loading, sendingMessage,
                 hasLoadedConversations, rendered, svars,
                 ops, titleCall, renameDialog>>

(***************************************************************************)
(* handleDeleteConversation, page.tsx 407-437.                             *)
(***************************************************************************)
\* ConversationsSidebar.handleConfirmDelete (conversations-sidebar.tsx 66-72)
\* writes its dialog state inside the click; the handler captures the rendered
\* selectedConversationId
handleDeleteConversation(c) ==
  /\ Gesture
  /\ c \in Ids(rendered.convs)
  /\ CommitCurrent(tasks (+) One([kind |-> "deleteConversation", conv |-> c,
                                  sel |-> rendered.sel]))
  /\ ops' = ops + 1
  /\ ev' = Event("deleteStart", TRUE, c, 0)
  /\ UNCHANGED <<mapCall, backendUp, isMounted, hvars, cvars, svars, lastTs, nextCall, localUploads,
                 titleCall, renameDialog>>

\* lines 411-413
Remaining(prev, conversationId) ==
  SelectSeq(prev, LAMBDA c : c.id # conversationId)

\* a reselection that takes the last remaining conversation
NextSelected_TakesLast(remaining) ==
  IF Len(remaining) > 0 THEN remaining[Len(remaining)].id ELSE Null

\* lines 415-416
NextSelected(remaining) ==
  IF Len(remaining) > 0 THEN remaining[1].id ELSE Null

\* line 414: the test is on the selectedConversationId captured by the handler
DeletedWasSelected(t) == t.sel = t.conv

\* lines 409-428
DeleteConversationDone(t) ==
  /\ t \in TasksOf("deleteConversation")
  /\ ServerHas(t.conv)
  /\ srvConvs' = Remaining(srvConvs, t.conv)
  /\ conversations' = Remaining(conversations, t.conv)
  /\ IF DeletedWasSelected(t)
     THEN /\ selectedConversationId' = NextSelected(Remaining(conversations, t.conv))
          /\ messages' = <<>>
          /\ documents' = <<>>
          /\ previewDoc' = Null
          /\ previewingDocId' = Null
     ELSE UNCHANGED <<selectedConversationId, messages, documents, previewDoc,
                      previewingDocId>>
  /\ tasks' = tasks (-) One(t)
  /\ ev' = Success(EventWith("deleteDone", TRUE, t.conv, t.sel,
                             <<Len(messages), Len(documents), previewDoc>>))
  /\ UNCHANGED <<mapCall, backendUp, isMounted, hvars, intervalOn, loading, sendingMessage,
                 conversationCreationRef, hasLoadedConversations, rendered, srvMsgs,
                 srvDocs, nextConvId, nextDocId, lastTs, nextCall, ops, localUploads,
                 titleCall, renameDialog>>

\* a failed delete that still removes the conversation from the list
DeleteConversationFailed_Removes(t) ==
  /\ t \in TasksOf("deleteConversation")
  /\ tasks' = tasks (-) One(t)
  /\ conversations' = Remaining(conversations, t.conv)
  /\ ev' = Destructive(Event("deleteDone", FALSE, t.conv, t.sel))
  /\ UNCHANGED <<mapCall, backendUp, isMounted, hvars, intervalOn, selectedConversationId, messages,
                 documents, previewDoc, previewingDocId, loading, sendingMessage,
                 conversationCreationRef, hasLoadedConversations, rendered, svars,
                 lastTs, nextCall, ops, localUploads, titleCall, renameDialog>>

\* lines 429-436
DeleteConversationFailed(t) ==
  /\ t \in TasksOf("deleteConversation")
  /\ tasks' = tasks (-) One(t)
  /\ ev' = Destructive(Event("deleteDone", FALSE, t.conv, t.sel))
  /\ UNCHANGED <<mapCall, backendUp, isMounted, hvars, intervalOn, cvars, rendered, svars, lastTs,
                 nextCall, ops, localUploads,
                 titleCall, renameDialog>>

(***************************************************************************)
(* handleRenameConversation, page.tsx 439-466.                             *)
(***************************************************************************)
RenameTitles == {<<"r">>}

\* what the user may have typed in the dialog's input when pressing Save
RenameValues == RenameTitles \cup {<<>>, <<" ">>, <<" ", "r", "\t">>}

\* lines 439-444: the handler of the page; it passes on the title it is given
handleRenameConversation(c, title) ==
  /\ Gesture
  /\ c \in Ids(rendered.convs)
  /\ TasksOf("rename") = {}
  /\ CommitCurrent(tasks (+) One([kind |-> "rename", conv |-> c, title |-> title]))
  /\ ops' = ops + 1
  /\ ev' = Event("renameStart", TRUE, c, 0)
  /\ UNCHANGED <<mapCall, backendUp, isMounted, hvars, cvars, svars, lastTs, nextCall, localUploads,
                 titleCall>>

\* a Save that passes the typed value on whatever it is
RenameRejected_Never(renameValue) == FALSE

\* conversations-sidebar.tsx 85: nothing happens for an empty title
RenameRejected(renameValue) == Trim(renameValue) = <<>>

\* ConversationsSidebar.handleRenameClick (conversations-sidebar.tsx 74-82)
\* opens the dialog for conversation c, the user types renameValue and presses
\* Save: handleConfirmRename (84-100) up to its await
handleConfirmRename(c, renameValue) ==
  IF RenameRejected(renameValue)
  THEN /\ Gesture
       /\ c \in Ids(rendered.convs)
       /\ TasksOf("rename") = {}
       /\ renameDialog' = [open |-> TRUE, conv |-> c, renaming |-> FALSE]
       /\ CommitCurrent(tasks)
       /\ ops' = ops + 1
       /\ ev' = Event("renameRejected", FALSE, c, 0)
       /\ UNCHANGED <<mapCall, backendUp, isMounted, hvars, cvars, svars, lastTs, nextCall, localUploads,
                      titleCall>>
  ELSE /\ handleRenameConversation(c, Trim(renameValue))
       /\ renameDialog' = [open |-> TRUE, conv |-> c, renaming |-> TRUE]

\* a rename that stamps every conversation
Renamed_StampsAll(prev, conversationId, title, updatedAt) ==
  [i \in 1..Len(prev) |->
     IF prev[i].id = conversationId
     THEN [prev[i] EXCEPT !.title = title, !.updated_at = updatedAt]
     ELSE [prev[i] EXCEPT !.updated_at = updatedAt]]

\* lines 445-452
Renamed(prev, conversationId, title, updatedAt) ==
  [i \in 1..Len(prev) |->
     IF prev[i].id = conversationId
     THEN [prev[i] EXCEPT !.title = title, !.updated_at = updatedAt]
     ELSE prev[i]]

\* PATCH conversations/:id, api-client.ts 139-143
ServerRenamed(rows, conversationId, title) ==
  [i \in 1..Len(rows) |->
     IF rows[i].id = conversationId THEN [rows[i] EXCEPT !.title = title]
     ELSE rows[i]]

\* lines 444-456, then conversations-sidebar.tsx 92-94 and 98: the dialog closes
RenameDone(t) ==
  /\ t \in TasksOf("rename")
  /\ ServerHas(t.conv)
  /\ srvConvs' = ServerRenamed(srvConvs, t.conv, t.title)
  /\ conversations' = Renamed(conversations, t.conv, t.title, Now)
  /\ renameDialog' = NoRenameDialog
  /\ tasks' = tasks (-) One(t)
  /\ ev' = Success(Event("renameDone", TRUE, t.conv, Now))
  /\ UNCHANGED <<mapCall, backendUp, isMounted, hvars, intervalOn, selectedConversationId, messages,
                 documents, previewDoc, previewingDocId, loading, sendingMessage,
                 conversationCreationRef, hasLoadedConversations, rendered, srvMsgs,
                 srvDocs, nextConvId, nextDocId, lastTs, nextCall, ops, localUploads,
                 titleCall>>

\* lines 457-465: the error is thrown again; conversations-sidebar.tsx 95-98:
\* the catch is empty, so the dialog stays as it is and `renaming` is reset
RenameFailed(t) ==
  /\ t \in TasksOf("rename")
  /\ renameDialog' = [renameDialog EXCEPT !.renaming = FALSE]
  /\ tasks' = tasks (-) One(t)
  /\ ev' = Destructive(Event("renameDone", FALSE, t.conv, 0))
  /\ UNCHANGED <<mapCall, backendUp, isMounted, hvars, intervalOn, cvars, rendered, svars, lastTs,
                 nextCall, ops, localUploads, titleCall>>

(***************************************************************************)
(* Documents: toggle, delete, preview, page.tsx 557-630.                   *)
(***************************************************************************)
DocIds(docs) == {docs[i].id : i \in 1..Len(docs)}
ServerHasDoc(c, d) == ServerHas(c) /\ d \in DocIds(srvDocs[c])

\* lines 577-588: no state is written before the await
handleToggleDocumentInclude(d, isIncluded) ==
  /\ Gesture
  /\ rendered.sel # Null
  /\ d \in DocIds(documents)
  /\ tasks' = tasks (+) One([kind |-> "toggle", conv |-> rendered.sel, doc |-> d,
                             val |-> isIncluded])
  /\ ops' = ops + 1
  /\ ev' = Event("toggleStart", isIncluded, d, 0)
  /\ UNCHANGED <<mapCall, backendUp, isMounted, hvars, intervalOn, cvars, rendered, svars, lastTs, nextCall, localUploads,
                 titleCall, renameDialog>>

\* a toggle that writes the flag of every document
Toggled_WritesAll(prev, documentId, isIncluded) ==
  [i \in 1..Len(prev) |-> [prev[i] EXCEPT !.included = isIncluded]]

\* lines 589-593
Toggled(prev, documentId, isIncluded) ==
  [i \in 1..Len(prev) |->
     IF prev[i].id = documentId THEN [prev[i] EXCEPT !.included = isIncluded]
     ELSE prev[i]]

ToggleDone(t) ==
  /\ t \in TasksOf("toggle")
  /\ ServerHasDoc(t.conv, t.doc)
  /\ srvDocs' = [srvDocs EXCEPT ![t.conv] =
                   [i \in 1..Len(@) |->
                      IF @[i].id = t.doc THEN [@[i] EXCEPT !.include = t.val] ELSE @[i]]]
  /\ documents' = Toggled(documents, t.doc, t.val)
  /\ tasks' = tasks (-) One(t)
  /\ ev' = Event("toggleDone", TRUE, t.doc, IF t.val THEN 1 ELSE 0)
  /\ UNCHANGED <<mapCall, backendUp, isMounted, hvars, intervalOn, conversations, selectedConversationId,
                 messages, previewDoc, previewingDocId, loading, sendingMessage,
                 conversationCreationRef, hasLoadedConversations, rendered, srvConvs,
                 srvMsgs, nextConvId, nextDocId, lastTs, nextCall, ops, localUploads,
                 titleCall, renameDialog>>

\* lines 594-601
ToggleFailed(t) ==
  /\ t \in TasksOf("toggle")
  /\ tasks' = tasks (-) One(t)
  /\ ev' = Destructive(Event("toggleDone", FALSE, t.doc, IF t.val THEN 1 ELSE 0))
  /\ UNCHANGED <<mapCall, backendUp, isMounted, hvars, intervalOn, cvars, rendered, svars, lastTs,
                 nextCall, ops, localUploads,
                 titleCall, renameDialog>>

\* DocumentsPanel.handleConfirmDelete (documents-panel.tsx 80-86) writes its
\* dialog state inside the click; lines 557-561
handleDeleteDocument(d) ==
  /\ Gesture
  /\ rendered.sel # Null
  /\ d \in DocIds(documents)
  /\ CommitCurrent(tasks (+) One([kind |-> "deleteDocument", conv |-> rendered.sel,
                                  doc |-> d]))
  /\ ops' = ops + 1
  /\ ev' = Event("deleteDocStart", TRUE, d, 0)
  /\ UNCHANGED <<mapCall, backendUp, isMounted, hvars, cvars, svars, lastTs, nextCall, localUploads,
                 titleCall, renameDialog>>

\* a removal that empties the collection
WithoutDocument_Clears(prev, documentId) == <<>>

\* line 562
WithoutDocument(prev, documentId) == SelectSeq(prev, LAMBDA d : d.id # documentId)

DeleteDocumentDone(t) ==
  /\ t \in TasksOf("deleteDocument")
  /\ ServerHasDoc(t.conv, t.doc)
  /\ srvDocs' = [srvDocs EXCEPT ![t.conv] = WithoutDocument(@, t.doc)]
  /\ documents' = WithoutDocument(documents, t.doc)
  /\ tasks' = tasks (-) One(t)
  /\ ev' = Success(Event("deleteDocDone", TRUE, t.doc, 0))
  /\ UNCHANGED <<mapCall, backendUp, isMounted, hvars, intervalOn, conversations, selectedConversationId,
                 messages, previewDoc, previewingDocId, loading, sendingMessage,
                 conversationCreationRef, hasLoadedConversations, rendered, srvConvs,
                 srvMsgs, nextConvId, nextDocId, lastTs, nextCall, ops, localUploads,
                 titleCall, renameDialog>>

DeleteDocumentFailed(t) ==
  /\ t \in TasksOf("deleteDocument")
  /\ tasks' = tasks (-) One(t)
  /\ ev' = Destructive(Event("deleteDocDone", FALSE, t.doc, 0))
  /\ UNCHANGED <<mapCall, backendUp, isMounted, hvars, intervalOn, cvars, rendered, svars, lastTs,
                 nextCall, ops, localUploads,
                 titleCall, renameDialog>>

\* lines 604-615: setPreviewingDocId is written inside the click
handlePreviewDocument(d) ==
  /\ Gesture
  /\ rendered.sel # Null
  /\ d \in DocIds(documents)
  /\ previewingDocId # d          \* documents-panel.tsx 208-210: button disabled
  /\ previewingDocId' = d
  /\ CommitCurrent(tasks (+) One([kind |-> "preview", conv |-> rendered.sel, doc |-> d]))
  /\ ops' = ops + 1
  /\ ev' = Event("previewStart", TRUE, d, 0)
  /\ UNCHANGED <<mapCall, backendUp, isMounted, hvars, conversations, selectedConversationId, messages,
                 documents, previewDoc, loading, sendingMessage,
                 conversationCreationRef, hasLoadedConversations, svars, lastTs,
                 nextCall, localUploads,
                 titleCall, renameDialog>>

\* lines 612-629
PreviewDone(t, ok) ==
  /\ t \in TasksOf("preview")
  /\ ok => ServerHasDoc(t.conv, t.doc)
  /\ previewDoc' = (IF ok THEN t.doc ELSE previewDoc)
  /\ previewingDocId' = Null
  /\ tasks' = tasks (-) One(t)
  /\ ev' = ToastOnError(Event("previewDone", ok, t.doc, 0))
  /\ UNCHANGED <<mapCall, backendUp, isMounted, hvars, intervalOn, conversations, selectedConversationId,
                 messages, documents, loading, sendingMessage,
                 conversationCreationRef, hasLoadedConversations, rendered, svars,
                 lastTs, nextCall, ops, localUploads,
                 titleCall, renameDialog>>

(***************************************************************************)
(* Initial states.                                                         *)
(***************************************************************************)
\* The remote service at the start: up to InitialConvs conversations stored
\* earlier; the newest one holds one answered message and two documents.
InitialServerConvs(n) ==
  [i \in 1..n |-> [id |-> n + 1 - i, title |-> <<"Stored ", ToString(n + 1 - i)>>]]

InitServerWith(n) ==
  /\ srvConvs = InitialServerConvs(n)
  /\ srvMsgs = [c \in ServerConvIds |-> IF c = n THEN StoredExchange(n, 0) ELSE <<>>]
  /\ srvDocs = [c \in ServerConvIds |->
                  IF c = n
                  THEN <<[id |-> 1, conversation_id |-> n, include |-> TRUE],
                         [id |-> 2, conversation_id |-> n, include |-> FALSE]>>
                  ELSE <<>>]
  /\ nextConvId = n + 1
  /\ nextDocId = IF n >= 1 THEN 3 ELSE 1

InitClient ==
  /\ conversations = <<>>
  /\ selectedConversationId = Null
  /\ messages = <<>>
  /\ documents = <<>>
  /\ previewDoc = Null
  /\ previewingDocId = Null
  /\ loading = TRUE
  /\ sendingMessage = FALSE
  /\ conversationCreationRef = Null
  /\ hasLoadedConversations = FALSE
  /\ lastTs = 0
  /\ nextCall = 1
  /\ ops = 0
  /\ localUploads = {}
  /\ renameDialog = NoRenameDialog
  /\ backendUp = {}
  /\ mapCall = NoMapCall

\* The component right after mount: the first render is committed and the health
\* effect (216-229) has called runHealthCheck() once and created the interval.
InitHealth ==
  /\ isMounted = TRUE
  /\ backendReady = FALSE
  /\ backendChecking = TRUE
  /\ backendRetryCount = 0
  /\ backendLastError = NoError
  /\ healthCheckInFlight = TRUE
  /\ healthChecks = {[idx |-> 1, lastErr |-> DefaultError]}
  /\ intervalOn = TRUE
  /\ probedWhileReady = FALSE
  /\ InitClient
  /\ titleCall = NoTitleCall
  /\ InitServerWith(0)
  /\ rendered = Snapshot(FALSE, Null, <<>>, FALSE, TRUE)
  /\ tasks = EmptyBag
  /\ ev = Event("mount", TRUE, 0, 0)

NextHealth ==
  \/ IntervalTick
  \/ ManualRetry
  \/ \E h \in healthChecks, o \in ProbeOutcomes : HealthProbeDone(h, o)
  \/ Render
  \/ Unmount

SpecHealth == InitHealth /\ [][NextHealth]_vars

\* the service starts to answer health path p with a status below 500, for good
BackendComesUp(p) ==
  /\ p \notin backendUp
  /\ backendUp' = backendUp \cup {p}
  /\ ev' = Event("backendUp", TRUE, p, 0)
  /\ UNCHANGED <<mapCall, isMounted, hvars, intervalOn, cvars, rendered, tasks, svars,
                 lastTs, nextCall, ops, localUploads, titleCall, renameDialog>>

\* The readiness monitor of a page that stays mounted. The timer of setInterval
\* fires again and again (lines 222-224), every fetch settles, and React commits
\* a render it has scheduled.
NextMonitor ==
  \/ IntervalTick
  \/ ManualRetry
  \/ \E h \in healthChecks, o \in ProbeOutcomes : HealthProbeDone(h, o)
  \/ Render
  \/ \E p \in 1..Len(HealthPaths) : BackendComesUp(p)

SpecMonitor ==
  /\ InitHealth /\ [][NextMonitor]_vars
  /\ WF_vars(IntervalTick)
  /\ WF_vars(\E h \in healthChecks, o \in ProbeOutcomes : HealthProbeDone(h, o))
  /\ WF_vars(Render)

\* The page right after the commit that followed backendReady = true: the health
\* interval is cleared and the effect of line 249 has called loadConversations.
Init ==
  /\ isMounted = TRUE
  /\ backendReady = TRUE
  /\ backendChecking = FALSE
  /\ backendRetryCount = 0
  /\ backendLastError = NoError
  /\ healthCheckInFlight = FALSE
  /\ healthChecks = {}
  /\ intervalOn = FALSE
  /\ probedWhileReady = FALSE
  /\ InitClient
  /\ titleCall = NoTitleCall
  /\ \E n \in 0..InitialConvs : InitServerWith(n)
  /\ rendered = Snapshot(TRUE, Null, <<>>, FALSE, TRUE)
  /\ tasks = One([kind |-> "loadConversations", sel |-> Null, spinner |-> TRUE])
  /\ ev = Event("ready", TRUE, 0, 0)

\* the steps of the page while nothing tears it down
NextPage ==
  \/ Render
  \/ SessionUserChanged
  \/ \E t \in Tasks, ok \in BOOLEAN : LoadConversationsDone(t, ok)
  \/ \E t \in Tasks, ok \in BOOLEAN : LoadMessagesDone(t, ok)
  \/ \E t \in Tasks, ok \in BOOLEAN : LoadDocumentsDone(t, ok)
  \/ \E c \in Ids(rendered.convs) : handleSelectConversation(c)
  \/ handleCreateConversation
  \/ \E t \in Tasks : ServerCreate(t)
  \/ \E t \in Tasks : CreateConversationDone(t)
  \/ \E t \in Tasks, ts \in TsReads : CreateConversationFailed(t, ts)
  \/ \E content \in Contents : handleSendMessage(content)
  \/ \E size \in FileSizes : handleUploadDocument(size)
  \/ \E t \in Tasks : EnsureCreateDone(t)
  \/ \E t \in Tasks : EnsureCreateFailed(t)
  \/ \E t \in Tasks : SendDone(t)
  \/ \E t \in Tasks : SendFailed(t)
  \/ \E t \in Tasks : OfflineReply(t)
  \/ \E t \in Tasks : UploadDone(t)
  \/ \E t \in Tasks, ts \in TsReads : UploadFailed(t, ts)
  \/ \E c \in Ids(rendered.convs) : handleDeleteConversation(c)
  \/ \E t \in Tasks : DeleteConversationDone(t)
  \/ \E t \in Tasks : DeleteConversationFailed(t)
  \/ \E c \in Ids(rendered.convs), v \in RenameValues : handleConfirmRename(c, v)
  \/ \E t \in Tasks : RenameDone(t)
  \/ \E t \in Tasks : RenameFailed(t)
  \/ \E d \in DocIds(documents), v \in BOOLEAN : handleToggleDocumentInclude(d, v)
  \/ \E t \in Tasks : ToggleDone(t)
  \/ \E t \in Tasks : ToggleFailed(t)
  \/ \E d \in DocIds(documents) : handleDeleteDocument(d)
  \/ \E t \in Tasks : DeleteDocumentDone(t)
  \/ \E t \in Tasks : DeleteDocumentFailed(t)
  \/ \E d \in DocIds(documents) : handlePreviewDocument(d)
  \/ \E t \in Tasks, ok \in BOOLEAN : PreviewDone(t, ok)

\* the page may be torn down at any moment (lines 89-93); the calls in flight
\* still settle afterwards
Next ==
  \/ NextPage
  \/ Unmount

Spec == Init /\ [][Next]_vars

\* The page with a file dialog in which several files can be chosen at once
\* (documents-panel.tsx 48-73, `multiple`).
Batches == {<<1, 2>>}

NextBatch ==
  \/ NextPage
  \/ \E files \in Batches : handleFileChange(files)

SpecBatch == Init /\ [][NextBatch]_vars

\* The page from mount on, while it stays mounted: the readiness monitor first,
\* then the handlers.
NextStartup ==
  \/ IntervalTick
  \/ ManualRetry
  \/ \E h \in healthChecks, o \in ProbeOutcomes : HealthProbeDone(h, o)
  \/ NextPage

SpecStartup == InitHealth /\ [][NextStartup]_vars

(***************************************************************************)
(* deriveConversationTitle on its own, page.tsx 43-56: the seeds are the   *)
(* text of a message (line 476) or undefined (line 524), the index is      *)
(* conversations.length + 1 (line 104).                                    *)
(***************************************************************************)
Rep(c, n) == [i \in 1..n |-> c]

Gaps == {<<>>, <<" ">>, <<"\t", " ">>}

\* seeds: optional leading blank, a word, a whitespace run, a word, optional
\* trailing tab
TitleSeeds ==
  {Rep(" ", l) \o Rep("a", w1) \o g \o Rep("b", w2) \o Rep("\t", tr) :
     l \in 0..1, w1 \in 0..MaxSeedWord, g \in Gaps, w2 \in 0..MaxSeedTail, tr \in 0..1}

FallbackIndexes == 1..(InitialConvs + 1)

InitTitle ==
  /\ isMounted = TRUE
  /\ backendReady = TRUE
  /\ backendChecking = FALSE
  /\ backendRetryCount = 0
  /\ backendLastError = NoError
  /\ healthCheckInFlight = FALSE
  /\ healthChecks = {}
  /\ intervalOn = FALSE
  /\ probedWhileReady = FALSE
  /\ InitClient
  /\ \E seed \in TitleSeeds, n \in FallbackIndexes :
       titleCall = [seed |-> seed, fallbackIndex |-> n, result |-> <<>>, done |-> FALSE]
  /\ InitServerWith(0)
  /\ rendered = Snapshot(TRUE, Null, <<>>, FALSE, TRUE)
  /\ tasks = EmptyBag
  /\ ev = Event("ready", TRUE, 0, 0)

\* one call of deriveConversationTitle
DeriveTitle ==
  /\ ~titleCall.done
  /\ titleCall' = [titleCall EXCEPT
                     !.result = deriveConversationTitle(titleCall.seed,
                                                        titleCall.fallbackIndex),
                     !.done = TRUE]
  /\ ev' = Event("deriveTitle", TRUE, titleCall.fallbackIndex, 0)
  /\ UNCHANGED <<mapCall, backendUp, isMounted, hvars, intervalOn, cvars, rendered, tasks, svars, lastTs,
                 nextCall, ops, localUploads, renameDialog>>

NextTitle == DeriveTitle

SpecTitle == InitTitle /\ [][NextTitle]_vars

(***************************************************************************)
(* mapDocument on its own, api-client.ts 100-113: DocumentRow.include is   *)
(* `boolean | string` (line 80) and a JSON row may also lack the field or  *)
(* carry null or a number.                                                 *)
(***************************************************************************)
IncludeWords ==
  {<<"t", "r", "u", "e">>, <<"T", "R", "U", "E">>, <<"T", "r", "u", "e">>,
   <<"t", "R", "u", "E">>, <<"f", "a", "l", "s", "e">>, <<"y", "e", "s">>,
   <<"1">>, <<"0">>, <<"o", "n">>, <<"t", "r", "u", "e", "e">>,
   <<"t", "r", " ", "u", "e">>, <<>>}

IncludeValues ==
  {JsBoolean(b) : b \in BOOLEAN}
    \cup {JsString(l \o w \o t) : l \in Gaps, w \in IncludeWords, t \in Gaps}
    \cup {JsNumber(n) : n \in {0, 1}}
    \cup {JsNull, JsUndefined}

InitDocument ==
  /\ isMounted = TRUE
  /\ backendReady = TRUE
  /\ backendChecking = FALSE
  /\ backendRetryCount = 0
  /\ backendLastError = NoError
  /\ healthCheckInFlight = FALSE
  /\ healthChecks = {}
  /\ intervalOn = FALSE
  /\ probedWhileReady = FALSE
  /\ InitClient
  /\ titleCall = NoTitleCall
  /\ InitServerWith(0)
  /\ rendered = Snapshot(TRUE, Null, <<>>, FALSE, TRUE)
  /\ tasks = EmptyBag
  /\ ev = Event("ready", TRUE, 0, 0)

\* one row arrives and is mapped
MapDocument(include) ==
  /\ ~mapCall.done
  /\ mapCall' =
       [include |-> include,
        result |-> mapDocument([id |-> 1, conversation_id |-> 1,
                                include |-> include]).included,
        done |-> TRUE]
  /\ ev' = Event("mapDocument", TRUE, 0, 0)
  /\ UNCHANGED <<backendUp, isMounted, hvars, intervalOn, cvars, rendered, tasks, svars,
                 lastTs, nextCall, ops, localUploads, titleCall, renameDialog>>

NextDocument == \E include \in IncludeValues : MapDocument(include)

SpecDocument == InitDocument /\ [][NextDocument]_vars

(***************************************************************************)
(* Claims.                                                                 *)
(***************************************************************************)
InFlight(kinds) ==
  BagCardinality([t \in {x \in Tasks : x.kind \in kinds} |-> tasks[t]])

EnsureCallers == TasksOf("send") \cup TasksOf("upload")

\* C1: while no conversation is selected, every caller of
\* ensureActiveConversation that arrives before the creation settles awaits the
\* one creation in flight (no second create call is made), and the callers of
\* one creation resume with the same conversation id.
C1_SingleFlight ==
  /\ InFlight({"ensureCreate"}) <= 1
  /\ \A w \in EnsureCallers :
       w.pc = "ensure" =>
         /\ w.cr = conversationCreationRef
         /\ \E t \in TasksOf("ensureCreate") : t.p = w.cr
  /\ \A w1, w2 \in EnsureCallers :
       (w1.cr # Null /\ w1.cr = w2.cr /\ w1.pc # "ensure" /\ w2.pc # "ensure")
         => (w1.conv = w2.conv /\ w1.conv # Null)

\* two callers were resumed by one creation with the same id
C1_Witness ==
  /\ ev.op = "ensureDone" /\ ev.ok
  /\ Cardinality({w \in EnsureCallers : w.cr = ev.b /\ w.conv = ev.a}) >= 2

\* C2: at most one create-conversation remote call is in flight, whichever of
\* send-message, upload-document and the explicit new-conversation action made it.
C2_AtMostOneCreateInFlight ==
  InFlight({"ensureCreate", "createConversation"}) <= 1

\* C3: every message and every document held in memory carries the id of the
\* currently selected conversation.
C3_HeldBelongToSelected ==
  /\ \A i \in 1..Len(messages) : messages[i].conv = selectedConversationId
  /\ \A i \in 1..Len(documents) : documents[i].conv = selectedConversationId

\* C4: no assistant message is in the message sequence without a user message
\* before it.
C4_NoOrphanAssistant ==
  \A i \in 1..Len(messages) :
    messages[i].role = "assistant"
      => \E j \in 1..(i - 1) : messages[j].role = "user"

\* C5: when the assistant reply of a send call (real or offline) is appended,
\* the user message of that call is in the sequence at an earlier position.
C5_UserMessageBeforeReply ==
  ((ev.op = "sendDone" /\ ev.ok) \/ ev.op = "offlineReply")
    => \E i \in 1..(Len(messages) - 1) :
         messages[i].role = "user" /\ messages[i].call = ev.b

\* C6: backendReady is a one-way latch: once true it stays true.
C6_ReadyLatch == [][backendReady => backendReady']_vars

\* backendReady is still true after a later health check ended with no probe
\* succeeding
C6_Witness == backendReady /\ ev.op = "healthDone" /\ ~ev.ok

\* C7: no health probe is issued once backendReady is true.
C7_NoProbeAfterReady == ~probedWhileReady

C9_LocalDocumentKept ==
  \A u \in localUploads :
    (ops = 1 /\ Tasks = {})
      => /\ Cardinality({i \in 1..Len(documents) : documents[i].id = u.id}) = 1
         /\ \A i \in 1..Len(documents) :
              documents[i].id = u.id
                => /\ documents[i].included
                   /\ documents[i].size = u.size
                   /\ documents[i].conv = u.conv

\* C10: the step that ends a toggle of document X keeps the number, the ids and
\* the order of the documents, leaves every other document as it was, sets X's
\* flag to the requested value when the call succeeded and leaves X as it was
\* when the call failed.
C10_ToggleFrame ==
  [][ev'.op = "toggleDone"
       => /\ Len(documents') = Len(documents)
          /\ \A i \in 1..Len(documents) :
               /\ documents'[i].id = documents[i].id
               /\ documents[i].id # ev'.a => documents'[i] = documents[i]
               /\ documents[i].id = ev'.a
                    => documents'[i] =
                         [documents[i] EXCEPT
                            !.included = IF ev'.ok THEN ev'.b = 1 ELSE @]]_vars

\* a successful toggle changed X's flag while another document holds the other
\* value
C10_Witness ==
  /\ ev.op = "toggleDone" /\ ev.ok
  /\ \E i, j \in 1..Len(documents) :
       /\ documents[i].id = ev.a /\ documents[i].included = (ev.b = 1)
       /\ documents[j].id # ev.a /\ documents[j].included # (ev.b = 1)

\* position i of a seed survives trimming and collapsing: a character that is
\* no whitespace, or the first whitespace of a run that lies between two words
TitleKeeps(s, i) ==
  \/ s[i] \notin Whitespace
  \/ /\ i > 1
     /\ s[i - 1] \notin Whitespace
     /\ \E j \in (i + 1)..Len(s) : s[j] \notin Whitespace

RECURSIVE TitleNormalized(_, _)
TitleNormalized(s, i) ==
  IF i > Len(s) THEN <<>>
  ELSE (IF TitleKeeps(s, i)
        THEN <<IF s[i] \in Whitespace THEN " " ELSE s[i]>>
        ELSE <<>>) \o TitleNormalized(s, i + 1)

TitleAsStated(seed, n) ==
  LET c == TitleNormalized(seed, 1) IN
  IF c = <<>> THEN <<"New Conversation ", ToString(n)>>
  ELSE IF Len(c) <= 60 THEN c
  ELSE SubSeq(c, 1, 57) \o <<".", ".", ".">>

TitleAmended(seed, n) ==
  LET c == TitleNormalized(seed, 1) IN
  IF c = <<>> THEN <<"New Conversation ", ToString(n)>>
  ELSE IF Len(c) <= 60 THEN c
  ELSE LET last == CHOOSE i \in 1..57 :
                     c[i] # " " /\ \A j \in (i + 1)..57 : c[j] = " " IN
       SubSeq(c, 1, last) \o <<".", ".", ".">>

C12_TokenClearedOnSettle ==
  [][/\ ev'.op = "ensureDone" => conversationCreationRef' = Null
     /\ conversationCreationRef' # Null
          => \E t \in BagToSet(tasks') :
               t.kind = "ensureCreate" /\ t.p = conversationCreationRef'
     /\ (/\ ev'.op \in {"sendStart", "uploadStart"}
         /\ ev'.a = Null
         /\ TasksOf("ensureCreate") = {})
          => \E t \in BagToSet(tasks') :
               /\ t.kind = "ensureCreate" /\ t.pc = "req"
               /\ t.p = conversationCreationRef'
               /\ t.p = nextCall + 1]_vars

\* the second gesture started a creation of its own after the creation of the
\* first gesture had failed
C12_Witness ==
  /\ ops = 2
  /\ conversations = <<>>
  /\ TasksOf("createConversation") = {}
  /\ Cardinality(EnsureCallers) = 1
  /\ \E t \in TasksOf("ensureCreate") :
       t.p = conversationCreationRef /\ t.p = nextCall - 1

\* C13: the step in which a creation started by ensureActiveConversation
\* succeeds puts the new conversation at the head of the list with the earlier
\* conversations in their order behind it, selects it, empties the documents,
\* leaves in the messages nothing but the optimistic messages that the resumed
\* send callers append in the same step, and resumes every awaiting caller with
\* created = true and the new id.
C13_CreationSuccess ==
  [][(ev'.op = "ensureDone" /\ ev'.ok)
       => /\ Len(conversations') = Len(conversations) + 1
          /\ conversations'[1].id = ev'.a
          /\ SubSeq(conversations', 2, Len(conversations')) = conversations
          /\ selectedConversationId' = ev'.a
          /\ documents' = <<>>
          /\ \A i \in 1..Len(messages') :
               messages'[i].src = "temp" /\ messages'[i].conv = ev'.a
          /\ (\A w \in Waiters(ev'.b) : w.kind = "upload") => messages' = <<>>
          /\ \A w \in Waiters(ev'.b) :
               \E r \in BagToSet(tasks') :
                 /\ r.kind = w.kind /\ r.call = w.call
                 /\ r.created /\ r.conv = ev'.a /\ r.pc # "ensure"]_vars

\* a creation succeeded while another conversation was listed and messages were
\* held
C13_Witness ==
  /\ ev.op = "ensureDone" /\ ev.ok
  /\ Len(conversations) >= 2
  /\ ev.pre[1] > 0
  /\ messages = <<>>

C15_CreationFailure ==
  [][(ev'.op = "ensureDone" /\ ~ev'.ok)
       => /\ conversations' = conversations
          /\ selectedConversationId' = selectedConversationId
          /\ messages' = messages
          /\ documents' = documents
          /\ localUploads' = localUploads
          /\ \A r \in BagToSet(tasks') :
               r.kind \in {"send", "upload"} => r.cr # ev'.b
          /\ {r \in BagToSet(tasks') : r.kind = "offlineReply"} = TasksOf("offlineReply")]_vars

\* a creation awaited by a send and an upload has failed
C15_Witness ==
  /\ ev.op = "ensureDone" /\ ~ev.ok
  /\ ops = 2
  /\ EnsureCallers = {}
  /\ TasksOf("createConversation") = {}
  /\ conversations = <<>>
  /\ nextCall = 1 + 2 * ops
  /\ ev.b + 3 = nextCall

\* C16: the step that ends a failed toggle-inclusion, delete-document,
\* delete-conversation or rename-conversation call leaves the conversation
\* list, the selection, the messages, the documents and the preview as they were.
C16_FailureLeavesState ==
  [][(ev'.op \in {"toggleDone", "deleteDocDone", "deleteDone", "renameDone"} /\ ~ev'.ok)
       => /\ conversations' = conversations
          /\ selectedConversationId' = selectedConversationId
          /\ messages' = messages
          /\ documents' = documents
          /\ previewDoc' = previewDoc
          /\ previewingDocId' = previewingDocId]_vars

\* a delete of the selected conversation failed while it held messages and
\* documents
C16_Witness ==
  /\ ev.op = "deleteDone" /\ ~ev.ok
  /\ ev.a = selectedConversationId
  /\ ev.a \in Ids(conversations)
  /\ messages # <<>> /\ documents # <<>>

\* C17: while backendReady is false no conversation, message or document call
\* is in flight, so none was issued before backendReady became true.
C17_NoCallBeforeReady == ~backendReady => tasks = EmptyBag

\* the commit that followed backendReady = true, after a failed check, has
\* started the first list-conversations call
C17_Witness ==
  /\ backendReady
  /\ ev.op = "render"
  /\ TasksOf("loadConversations") # {}
  /\ ~hasLoadedConversations
  /\ backendLastError = NoError

\* C18: right after the select action has selected a conversation, the message
\* and document collections hold nothing of another conversation.
C18_SelectEmptiesCollections ==
  ev.op = "select"
    => /\ \A i \in 1..Len(messages) : messages[i].conv = ev.a
       /\ \A i \in 1..Len(documents) : documents[i].conv = ev.a

\* C19: a call of runHealthCheck starts a check only while backendReady is
\* false, no other check is in progress and the component is mounted, so at
\* most one probe sequence is in flight.
C19_NoopUnlessIdle ==
  /\ ev.op = "healthStart" => (~backendReady /\ isMounted)
  /\ Cardinality(healthChecks) <= 1

\* C20: the step that ends a health check of the mounted component, when no
\* probe succeeded, adds exactly one to the retry counter, stores an error and
\* leaves a false backendReady false; when a probe succeeded it sets
\* backendReady, clears the error and resets the retry counter to zero.
C20_CheckOutcome ==
  [][(ev'.op = "healthDone" /\ isMounted)
       => IF ev'.ok
          THEN /\ backendReady'
               /\ backendLastError' = NoError
               /\ backendRetryCount' = 0
          ELSE /\ ~backendReady => ~backendReady'
               /\ backendRetryCount' = backendRetryCount + 1
               /\ backendLastError' # NoError]_vars

\* a second check in a row has ended with no probe succeeding
C20_Witness ==
  /\ ev.op = "healthDone" /\ ~ev.ok
  /\ isMounted /\ ~backendReady
  /\ backendRetryCount > 1
  /\ backendLastError # NoError

\* C21: once the component is torn down, no completion of a list-load, of a
\* create, rename or delete of a conversation, of a send or its delayed offline
\* reply, or of an upload, toggle, delete or preview of a document changes the
\* state of the page.
C21_NoWriteAfterTeardown == [][~isMounted => UNCHANGED cvars]_vars

\* C22: a health-probe result that arrives after the component was torn down
\* changes none of backendReady, backendChecking, the retry counter and the
\* last error.
C22_ProbeAfterTeardown ==
  [][(~isMounted /\ ev'.op \in {"healthDone", "probeNext"})
       => UNCHANGED <<backendReady, backendChecking, backendRetryCount,
                      backendLastError>>]_vars

\* after the teardown a check ended with a successful probe and nothing was
\* written
C22_Witness ==
  /\ ~isMounted
  /\ ev.op = "healthDone" /\ ev.ok
  /\ healthChecks = {}
  /\ ~backendReady /\ backendChecking
  /\ backendLastError = NoError /\ backendRetryCount = 0

\* the list-loads of one kind in flight, as a bag
LoadsOf(b, kind) == [t \in {x \in BagToSet(b) : x.kind = kind} |-> b[t]]

C25_RenameFrame ==
  [][ev'.op = "renameDone"
       => LET t == CHOOSE r \in TasksOf("rename") : r.conv = ev'.a IN
          IF ev'.ok
          THEN /\ Len(conversations') = Len(conversations)
               /\ \A i \in 1..Len(conversations) :
                    /\ conversations'[i].id = conversations[i].id
                    /\ conversations[i].id # ev'.a => conversations'[i] = conversations[i]
                    /\ conversations[i].id = ev'.a
                         => /\ conversations'[i].title = t.title
                            /\ conversations'[i].updated_at = ev'.b
               /\ selectedConversationId' = selectedConversationId
               /\ messages' = messages
               /\ documents' = documents
          ELSE /\ renameDialog.open /\ renameDialog'.open
               /\ renameDialog'.conv = ev'.a]_vars

\* a conversation was renamed while another one, with another updated-at, is
\* listed and messages are held
C25_Witness ==
  /\ ev.op = "renameDone" /\ ev.ok
  /\ messages # <<>>
  /\ \E i, j \in 1..Len(conversations) :
       /\ conversations[i].id = ev.a
       /\ conversations[i].title \in RenameTitles
       /\ conversations[i].updated_at = ev.b
       /\ conversations[j].id # ev.a
       /\ conversations[j].updated_at # ev.b

\* the offline replies of send call k: scheduled and not yet run, or held in
\* the message sequence
OfflineRepliesOf(ts, msgs, k) ==
  Cardinality({t \in ts : t.kind = "offlineReply" /\ t.call = k})
    + Cardinality({i \in 1..Len(msgs) :
                     msgs[i].src = "offline" /\ msgs[i].call = k})

\* C26: the step in which the send-message call of a handler that had appended
\* its user message fails schedules exactly one offline reply for that call,
\* and the timer step appends exactly that one assistant message; an offline
\* reply is scheduled by no other step, so a call that failed before its user
\* message was appended (the creation failed) gets none; and no call ever has
\* more than one offline reply.
C26_OfflineReply ==
  [][/\ (ev'.op = "sendDone" /\ ~ev'.ok)
          => /\ \E t \in TasksOf("send") :
                  t.call = ev'.b /\ t.pc = "sending" /\ t.conv = ev'.a /\ t.conv # Null
             /\ LoadsOf(tasks', "offlineReply")
                  = LoadsOf(tasks, "offlineReply")
                      (+) One([kind |-> "offlineReply", call |-> ev'.b, conv |-> ev'.a])
             /\ messages' = messages
     /\ ev'.op = "offlineReply"
          => /\ messages' = Append(messages, AssistantMessage(ev'.a, ev'.b, "offline"))
             /\ LoadsOf(tasks, "offlineReply")
                  = LoadsOf(tasks', "offlineReply")
                      (+) One([kind |-> "offlineReply", call |-> ev'.b, conv |-> ev'.a])
     /\ ~(ev'.op = "sendDone" /\ ~ev'.ok)
          => \A t \in BagToSet(tasks') :
               t.kind = "offlineReply" => t \in Tasks /\ tasks'[t] <= tasks[t]
     /\ ev'.op # "offlineReply"
          => \A k \in 1..nextCall :
               OfflineRepliesOf(BagToSet(tasks'), messages', k)
                 <= OfflineRepliesOf(Tasks, messages, k)
                      + (IF ev'.op = "sendDone" /\ ~ev'.ok /\ ev'.b = k THEN 1 ELSE 0)
     /\ \A k \in 1..nextCall : OfflineRepliesOf(BagToSet(tasks'), messages', k) <= 1]_vars

\* the offline reply of a failed send was appended right behind the user
\* message of that call, in a conversation made by that call
C26_Witness ==
  /\ ev.op = "offlineReply"
  /\ messages = <<UserMessage(ev.a, ev.b), AssistantMessage(ev.a, ev.b, "offline")>>
  /\ conversations # <<>> /\ conversations[1].id = ev.a
  /\ ev.a \in ServerConvIds

\* every element of a occurs in b, in the same relative order
RECURSIVE IsSubsequence(_, _)
IsSubsequence(a, b) ==
  IF a = <<>> THEN TRUE
  ELSE IF b = <<>> THEN FALSE
  ELSE IF Head(a) = Head(b) THEN IsSubsequence(Tail(a), Tail(b))
  ELSE IsSubsequence(a, Tail(b))

\* C27: a step that leaves the selected conversation as it is keeps every
\* message of the sequence, unchanged and in the same relative order.
C27_MessagesAppendOnly ==
  [][(selectedConversationId' = selectedConversationId /\ selectedConversationId # Null)
       => IsSubsequence(messages, messages')]_vars

RemoteCompletions ==
  {"loadConversationsDone", "loadMessagesDone", "loadDocumentsDone", "createDone",
   "ensureDone", "deleteDone", "renameDone", "sendDone", "uploadDone", "toggleDone",
   "deleteDocDone", "previewDone"}

\* every busy flag that keeps a control disabled belongs to an operation that
\* is still in flight
NoStuckFlag ==
  /\ sendingMessage => TasksOf("send") # {}
  /\ previewingDocId # Null => TasksOf("preview") # {}
  /\ conversationCreationRef # Null => TasksOf("ensureCreate") # {}
  /\ renameDialog.renaming => TasksOf("rename") # {}
  /\ loading => (TasksOf("loadConversations") # {} \/ ~hasLoadedConversations)

\* C29: a step in which a remote operation of the page fails (list, create,
\* rename, delete, send, upload, toggle, preview) raises a destructive
\* notification and ends every handler that awaited the operation; it leaves
\* the page mounted and ready, raises no busy flag and leaves none raised
\* without an operation in flight; and only the failure of a rename reaches the
\* rename dialog of the sidebar, which stays open.
C29_FailuresCaught ==
  [][(ev'.op \in RemoteCompletions /\ ~ev'.ok) =>
       /\ ev'.toast = "destructive"
       /\ BagCardinality(tasks') - Cardinality(TasksOf("offlineReply")')
            < BagCardinality(tasks) - Cardinality(TasksOf("offlineReply"))
       /\ ev'.op = "ensureDone" =>
            \A w \in BagToSet(tasks') :
               ~(w.kind \in {"send", "upload"} /\ w.pc = "ensure" /\ w.cr = ev'.b)
       /\ isMounted' = isMounted /\ backendReady' = backendReady
       /\ sendingMessage' => sendingMessage
       /\ loading' => loading
       /\ previewingDocId' \in {Null, previewingDocId}
       /\ conversationCreationRef' \in {Null, conversationCreationRef}
       /\ NoStuckFlag'
       /\ IF ev'.op = "renameDone"
          THEN renameDialog.open /\ renameDialog'.open /\ ~renameDialog'.renaming
          ELSE renameDialog' = renameDialog]_vars

\* the preview of a document has failed while a send was in flight: the
\* notification is raised, the preview button is released and the send goes on
C29_Witness ==
  /\ ev.op = "previewDone" /\ ~ev.ok /\ ev.toast = "destructive"
  /\ previewingDocId = Null
  /\ sendingMessage /\ TasksOf("send") # {}
  /\ isMounted /\ backendReady

\* C30: a Save of the rename dialog with an empty or whitespace-only title
\* issues no rename call and leaves the conversation list, the one of the
\* page and the one of the service, as it was; and no rename call is ever
\* issued with such a title.
C30_BlankRenameRejected ==
  [][/\ ev'.op = "renameRejected" =>
          /\ LoadsOf(tasks', "rename") = LoadsOf(tasks, "rename")
          /\ conversations' = conversations
          /\ srvConvs' = srvConvs
     /\ \A t \in TasksOf("rename")' \ TasksOf("rename") : Trim(t.title) # <<>>]_vars

\* a whitespace-only title was rejected: the dialog is open, no rename is in
\* flight and every title of the list is the one the service holds
C30_Witness ==
  /\ ev.op = "renameRejected"
  /\ renameDialog.open /\ renameDialog.conv = ev.a
  /\ TasksOf("rename") = {}
  /\ ev.a \in Ids(conversations) /\ ev.a \in ServerConvIds
  /\ \A i \in 1..Len(conversations) : \A j \in 1..Len(srvConvs) :
        conversations[i].id = srvConvs[j].id => conversations[i].title = srvConvs[j].title

\* C31: the step that ends a health check, reachable or not, mounted or torn
\* down, leaves the busy flag cleared and no check running, so that while the
\* page is mounted and not ready the entry guard of the next interval-driven
\* check passes; and the flag is set exactly while a check is running.
C31_BusyFlagReleased ==
  [][/\ ev'.op = "healthDone" =>
          /\ ~healthCheckInFlight'
          /\ healthChecks' = {}
          /\ (isMounted' /\ ~backendReady') => HealthGuardPasses(FALSE)'
     /\ healthCheckInFlight' <=> healthChecks' # {}]_vars

\* a check in which no probe succeeded has ended after the teardown: the flag
\* is cleared although none of the state setters ran
C31_Witness ==
  /\ ev.op = "healthDone" /\ ~ev.ok
  /\ ~isMounted
  /\ ~healthCheckInFlight
  /\ backendChecking /\ backendRetryCount = 0

\* C32: a health check starts with the first health path and has one fetch
\* outstanding at a time; a response with a status below 500 ends the check as
\* reachable, whatever path it came from, and no further path is probed; a
\* fetch that throws or answers 500 or above records its error message and is
\* followed by the fetch of the next path, or ends the check as unreachable
\* with that message when it was the last path.
C32_ProbeOrder ==
  [][/\ Cardinality(healthChecks') <= 1
     /\ ev'.op = "healthStart" =>
          healthChecks' = {[idx |-> 1, lastErr |-> DefaultError]}
     /\ ev'.op \in {"probeNext", "healthDone"} =>
          \E h \in healthChecks :
            LET o == ev'.pre
                failed == o.threw \/ o.status >= 500
                message == IF o.threw THEN "Network Error"
                           ELSE "Backend responded with status " \o ToString(o.status)
                                  \o " at " \o HealthPaths[h.idx]
            IN IF ~failed
               THEN /\ ev'.op = "healthDone" /\ ev'.ok /\ ev'.a = h.idx
                    /\ healthChecks' = {}
                    /\ isMounted => backendReady'
               ELSE IF h.idx < Len(HealthPaths)
               THEN /\ ev'.op = "probeNext"
                    /\ healthChecks' = {[idx |-> h.idx + 1, lastErr |-> message]}
                    /\ backendReady' = backendReady
               ELSE /\ ev'.op = "healthDone" /\ ~ev'.ok
                    /\ healthChecks' = {}
                    /\ backendReady' = backendReady
                    /\ isMounted => backendLastError' = message]_vars

\* the first path answered 500 or above or threw, the second answered 499: the
\* check ended as reachable
C32_Witness ==
  /\ ev.op = "healthDone" /\ ev.ok /\ ev.a = 2
  /\ ev.pre.status = 499
  /\ backendReady /\ backendLastError = NoError /\ healthChecks = {}

\* C33: on a page that stays mounted: the interval exists while the committed
\* render is not ready; as long as the retry counter stays below its bound,
\* either backendReady becomes true or the interval starts a health check
\* again and again; and if from some point on some health path answers every
\* probe with a status below 500 (the retry counter being below its bound),
\* backendReady eventually is true and the first list-conversations load has
\* been started.
C33_EventuallyReady ==
  /\ [](~rendered.ready => intervalOn)
  /\ [](backendRetryCount < MaxRetries) =>
       (<>backendReady \/ []<><<IntervalTick /\ healthCheckInFlight'>>_vars)
  /\ \A p \in 1..Len(HealthPaths) :
       <>[](p \in backendUp /\ backendRetryCount < MaxRetries) =>
         <>(backendReady /\ rendered.ready /\ InFlight({"loadConversations"}) = 1)

\* after a failed check a later one, started by the interval, found the second
\* path answering, and the commit of backendReady started the load
C33_Witness ==
  /\ backendUp = {2}
  /\ backendReady /\ rendered.ready /\ ~intervalOn
  /\ InFlight({"loadConversations"}) = 1
  /\ ev.op = "render"

\* C34: the step in which a delete-document call succeeds leaves in the
\* collection the documents whose id differs from the given one, all of them
\* and in their order, and none with the given id; the conversation list, the
\* selection and the messages are unchanged.
C34_DeleteDocumentFrame ==
  [][(ev'.op = "deleteDocDone" /\ ev'.ok) =>
       /\ IsSubsequence(documents', documents)
       /\ Len(documents') =
            Cardinality({i \in 1..Len(documents) : documents[i].id # ev'.a})
       /\ \A i \in 1..Len(documents') : documents'[i].id # ev'.a
       /\ UNCHANGED <<conversations, selectedConversationId, messages>>]_vars

\* a document was deleted from a collection that held another one, which is
\* still there, with messages on the page
C34_Witness ==
  /\ ev.op = "deleteDocDone" /\ ev.ok
  /\ documents # <<>> /\ ev.a \notin DocIds(documents)
  /\ messages # <<>>
  /\ selectedConversationId # Null

\* C35: the include field of a mapped row is a boolean: a boolean is kept; a
\* string gives true when, surrounding whitespace removed, it is "true" in any
\* letter case, and false otherwise; an absent or null field gives true.
C35_IncludeNormalized ==
  mapCall.done =>
    LET v == mapCall.include
        w == Trim(v.s)
    IN /\ mapCall.result \in BOOLEAN
       /\ v.type = "boolean" => mapCall.result = v.b
       /\ v.type = "string" =>
            (mapCall.result <=> /\ Len(w) = 4
                                /\ w[1] \in {"t", "T"} /\ w[2] \in {"r", "R"}
                                /\ w[3] \in {"u", "U"} /\ w[4] \in {"e", "E"})
       /\ v.type \in {"null", "undefined"} => mapCall.result = TRUE

\* C36: when the upload of one file of a batch has ended, the conversation of
\* that file having been created by the file's own call of
\* ensureActiveConversation, the call made for the next file of the batch
\* starts no create-conversation call and uploads to that same conversation.
C36_BatchCreatesOnce ==
  [][(ev'.op = "uploadDone" /\ ev'.pre.created /\ ev'.pre.rest # <<>>) =>
       /\ LoadsOf(tasks', "ensureCreate") = LoadsOf(tasks, "ensureCreate")
       /\ \A w \in TasksOf("upload")' : w.pc = "uploading" /\ w.conv = ev'.a]_vars

\* C37: after the step in which the delete of conversation C succeeds, C is
\* not in the conversation list and is not the selected conversation.
C37_DeletedIsGone ==
  [][(ev'.op = "deleteDone" /\ ev'.ok) =>
       /\ ev'.a \notin Ids(conversations')
       /\ selectedConversationId' # ev'.a]_vars

\* C38: no two entries of the conversation list have the same id.
C38_UniqueIds ==
  \A i, j \in 1..Len(conversations) :
    conversations[i].id = conversations[j].id => i = j

\* C39: when the explicit new-conversation action ends, with its remote call
\* succeeded or failed, the list is the list of the moment before with exactly
\* one conversation added at its head, and that conversation is selected: no
\* conversation added in flight is dropped, none deleted in flight comes back.
C39_CreateAddsOneAtHead ==
  [][ev'.op = "createDone" =>
       /\ conversations' # <<>>
       /\ Tail(conversations') = conversations
       /\ conversations'[1].id = ev'.a
       /\ selectedConversationId' = ev'.a]_vars

SendsInProgress(b) == BagCardinality(LoadsOf(b, "send"))

\* C40: at most one send-message operation is in progress at any instant; no
\* send starts (no user message appended for a new send, no remote call issued)
\* in a step taken while sendingMessage is set; and the step in which a send
\* ends, by success or by failure, leaves sendingMessage false.
C40_OneSendAtATime ==
  /\ [](SendsInProgress(tasks) <= 1)
  /\ [][/\ sendingMessage =>
             /\ ev'.op # "sendStart"
             /\ SendsInProgress(tasks') <= SendsInProgress(tasks)
        /\ SendsInProgress(tasks') < SendsInProgress(tasks) => ~sendingMessage'
        /\ ev'.op = "sendStart" =>
             /\ sendingMessage'
             /\ SendsInProgress(tasks') = 1]_vars

\* a first send has ended with the reply of the server and the flag went down;
\* a second send was then accepted and is the only one in progress, with the
\* flag up in the state and in the render
C40_Witness ==
  /\ ev.op = "sendStart"
  /\ isMounted
  /\ sendingMessage
  /\ rendered.sending
  /\ SendsInProgress(tasks) = 1
  /\ \E i \in 1..Len(messages) : messages[i].role = "assistant" /\ messages[i].src = "reply"

====
